---- MODULE Spec2Model ----
(***************************************************************************)
(* AuditFlow-Pro: cross-document validator, golden record builder and risk *)
(* scorer (backend/functions/validator, backend/functions/risk_scorer).    *)
(*                                                                         *)
(* Conventions of the model                                                *)
(*  - a Python str that the code inspects character by character (field    *)
(*    names, person names) is a sequence of one-character strings;         *)
(*  - a Python dict is a TLA+ record/function; d.get(k, default) is Get;   *)
(*  - a Python float confidence is an integer number of hundredths:        *)
(*    0.95 is 95, 80.0 is 8000, 100.0 is 10000;                            *)
(*  - a Python float the code computes with (an income) is an IEEE 754     *)
(*    binary64 number with its rounding.                                   *)
(***************************************************************************)
EXTENDS Integers, Sequences, FiniteSets, TLC

VARIABLES
    inconsistencies,   \* risk scorer event: list of inconsistency dicts
    golden_record,     \* the golden record, an ordered dict: a list of <<key, data>>
    documents,         \* risk scorer event: list of document dicts
    risk_assessment,   \* result of calculate_total_risk on the three above
    names,             \* validate_names: the list of name candidates
    name_inconsistencies,  \* validate_names: the list it returns
    values,            \* validate_ssn_dob: the list of SSN or DOB candidates
    field_name,        \* validate_ssn_dob: "ssn" or "date_of_birth"
    value_inconsistencies, \* validate_ssn_dob: the list it returns
    wage_candidates,   \* validate_income: the list of W2 wage candidates
    agi_candidate,     \* validate_income: the tax form's adjusted gross income
    income_inconsistencies,  \* validate_income: the list it returns, or that it raised
    address_candidates,      \* validate_addresses: the list of address candidates
    address_oracle,          \* validate_addresses: the Bedrock model of the call
    address_inconsistencies, \* validate_addresses: the list it returns, or that it raised
    bedrock_calls,     \* validate_addresses: the invoke_model calls it made
    loaded_documents,  \* generate_golden_record: the DocumentMetadata list
    event,             \* pipeline: the validator event of the runs
    bedrock,           \* pipeline: the Bedrock model of the runs
    response,          \* pipeline: the validator response of the latest run
    risk_response,     \* pipeline: the risk scorer response of the latest run
    previous_response,       \* pipeline: the validator response of the run before
    previous_risk_response,  \* pipeline: the risk scorer response of the run before
    lev_s1,            \* levenshtein_distance: its argument s1
    lev_s2,            \* levenshtein_distance: its argument s2
    lev_distance,      \* levenshtein_distance: what it returned
    check_phase,       \* checks of one invocation: "idle", "collected" or "done" per check
    check_fields,      \* checks of one invocation: the candidates each check collected
    merged,            \* checks of one invocation: the results of the finished checks
    alert_call,        \* trigger_alerts: record_data, ALERTS_TOPIC_ARN and what SNS does
    sns_published,     \* trigger_alerts: the RiskLevel of the messages given to sns.publish
    alerts_triggered,  \* trigger_alerts: the list it returns
    aggregated_data,   \* golden_record.py: the field -> values given to its builder
    aggregated_record, \* golden_record.py: the golden record its builder returns
    analyze_call,      \* analyze_document_with_retry: the Lambda whose copy is running
    textract_requests, \* analyze_document_with_retry: the analyze_document calls made
    textract_failures, \* analyze_document_with_retry: the errors of the failed calls
    sleeps,            \* analyze_document_with_retry: the time.sleep calls, in seconds
    analyze_outcome    \* analyze_document_with_retry: running, returned or raised

scorerVars == <<inconsistencies, golden_record, documents, risk_assessment>>
nameVars   == <<names, name_inconsistencies>>
valueVars  == <<values, field_name, value_inconsistencies>>
incomeVars == <<wage_candidates, agi_candidate, income_inconsistencies>>
addressVars == <<address_candidates, address_oracle, address_inconsistencies, bedrock_calls>>
ruleVars   == <<incomeVars, addressVars>>
pipelineVars == <<event, bedrock, response, risk_response,
                  previous_response, previous_risk_response>>
distanceVars == <<lev_s1, lev_s2, lev_distance>>
checkVars == <<check_phase, check_fields, merged>>
alertVars == <<alert_call, sns_published, alerts_triggered>>
aggregatedVars == <<aggregated_data, aggregated_record>>
retryVars == <<analyze_call, textract_requests, textract_failures, sleeps, analyze_outcome>>
utilityVars == <<distanceVars, checkVars, alertVars, aggregatedVars, retryVars>>
vars == <<scorerVars, nameVars, valueVars, ruleVars, loaded_documents, pipelineVars, utilityVars>>

(***************************************************************************)
(* Python helpers                                                          *)
(***************************************************************************)
\* None
NoField == [none |-> TRUE]

\* the element of a one-element set; { e(v) : v \in {x} } is e with the local
\* variable v assigned the value of x
Only(S) == CHOOSE r \in S : TRUE

\* dict.get(key, default)
Get(d, key, default) == IF key \in DOMAIN d THEN d[key] ELSE default

UpperChars == <<"A","B","C","D","E","F","G","H","I","J","K","L","M",
                "N","O","P","Q","R","S","T","U","V","W","X","Y","Z">>
LowerChars == <<"a","b","c","d","e","f","g","h","i","j","k","l","m",
                "n","o","p","q","r","s","t","u","v","w","x","y","z">>

\* str.lower(), character by character
Lower(s) ==
    [i \in 1..Len(s) |->
        IF \E k \in 1..Len(UpperChars) : UpperChars[k] = s[i]
        THEN LowerChars[CHOOSE k \in 1..Len(UpperChars) : UpperChars[k] = s[i]]
        ELSE s[i]]

\* needle in hay (substring test of Python's `in` on two strs)
StrIn(needle, hay) ==
    \E i \in 1..(Len(hay) - Len(needle) + 1) :
        SubSeq(hay, i, i + Len(needle) - 1) = needle

\* field names as the code spells them
s_name            == <<"n","a","m","e">>
s_address         == <<"a","d","d","r","e","s","s">>
s_income          == <<"i","n","c","o","m","e">>
s_ssn             == <<"s","s","n">>
s_date_of_birth   == <<"d","a","t","e","_","o","f","_","b","i","r","t","h">>
s_document_number == <<"d","o","c","u","m","e","n","t","_","n","u","m","b","e","r">>

(***************************************************************************)
(* risk_scorer/scorer.py                                                   *)
(***************************************************************************)
\* mutant of InconsistencyPoints: the severity of an income inconsistency is ignored
InconsistencyPoints_IgnoresSeverity(inc) ==
    LET field == Lower(Get(inc, "field", <<>>))
    IN  IF StrIn(s_name, field) THEN 15
        ELSE IF StrIn(s_address, field) THEN 20
        ELSE IF StrIn(s_income, field) THEN 25
        ELSE IF field \in {s_ssn, s_date_of_birth, s_document_number} THEN 30
        ELSE 0

\* scorer.py:18-31, the points of one inconsistency
InconsistencyPoints(inc) ==
    LET field    == Lower(Get(inc, "field", <<>>))
        severity == Get(inc, "severity", "LOW")
    IN  IF StrIn(s_name, field) THEN 15
        ELSE IF StrIn(s_address, field) THEN 20
        ELSE IF StrIn(s_income, field) THEN (IF severity = "HIGH" THEN 25 ELSE 15)
        ELSE IF field \in {s_ssn, s_date_of_birth, s_document_number} THEN 30
        ELSE 0

\* scorer.py:8-42
RECURSIVE calculate_inconsistency_score(_)
\* mutant of calculate_inconsistency_score: an inconsistency without points
\* gets a factor too
calculate_inconsistency_score_FactorForAll(incs) ==
    IF incs = <<>> THEN [score |-> 0, factors |-> <<>>]
    ELSE LET done   == calculate_inconsistency_score(SubSeq(incs, 1, Len(incs) - 1))
             inc    == incs[Len(incs)]
             points == InconsistencyPoints(inc)
         IN  [score   |-> done.score + points,
              factors |-> Append(done.factors,
                            [factor_type  |-> "INCONSISTENCY",
                             field        |-> Lower(Get(inc, "field", <<>>)),
                             points_added |-> points])]

calculate_inconsistency_score(incs) ==
    IF incs = <<>> THEN [score |-> 0, factors |-> <<>>]
    ELSE LET done   == calculate_inconsistency_score(SubSeq(incs, 1, Len(incs) - 1))
             inc    == incs[Len(incs)]
             points == InconsistencyPoints(inc)
         IN  IF points > 0
             THEN [score   |-> done.score + points,
                   factors |-> Append(done.factors,
                                 [factor_type  |-> "INCONSISTENCY",
                                  field        |-> Lower(Get(inc, "field", <<>>)),
                                  points_added |-> points])]
             ELSE done

\* a golden record value that is a str, not a dict (no .get: AttributeError)
IsPyStr(data) == "pystr" \in DOMAIN data

LowConfidenceThreshold == 8000   \* scorer.py:54, the float 80.0
DefaultConfidence == 10000       \* scorer.py:54, the float 100.0

\* scorer.py:54, the test of one golden record entry
IsLowConfidence(data) == Get(data, "confidence", DefaultConfidence) < LowConfidenceThreshold

\* scorer.py:53-62, the loop over golden_record.items()
RECURSIVE ConfidenceLoop(_)
ConfidenceLoop(items) ==
    IF items = <<>> THEN [raised |-> FALSE, score |-> 0, factors |-> <<>>]
    ELSE LET done == ConfidenceLoop(SubSeq(items, 1, Len(items) - 1))
             key  == items[Len(items)][1]
             data == items[Len(items)][2]
         IN  IF done.raised \/ IsPyStr(data)
             THEN [raised |-> TRUE, score |-> 0, factors |-> <<>>]
             ELSE IF IsLowConfidence(data)
             THEN [raised  |-> FALSE,
                   score   |-> done.score + 10,
                   factors |-> Append(done.factors,
                                 [factor_type  |-> "LOW_CONFIDENCE",
                                  field        |-> key,
                                  points_added |-> 10])]
             ELSE done

\* scorer.py:67, the test of one document
IsPoorQuality(doc) ==
    \/ Get(doc, "status", "None") = "LOW_QUALITY"
    \/ Get(doc, "requires_manual_review", FALSE) = TRUE

\* scorer.py:65-75, the loop over documents
RECURSIVE DocumentQualityLoop(_)
DocumentQualityLoop(docs) ==
    IF docs = <<>> THEN [score |-> 0, factors |-> <<>>]
    ELSE LET done == DocumentQualityLoop(SubSeq(docs, 1, Len(docs) - 1))
             doc  == docs[Len(docs)]
         IN  IF IsPoorQuality(doc)
             THEN [score   |-> done.score + 5,
                   factors |-> Append(done.factors,
                                 [factor_type  |-> "POOR_DOCUMENT_QUALITY",
                                  document_id  |-> Get(doc, "document_id", "None"),
                                  points_added |-> 5])]
             ELSE done

\* scorer.py:44-77
calculate_extraction_quality_score(golden, docs) ==
    LET conf == ConfidenceLoop(golden)
        qual == DocumentQualityLoop(docs)
    IN  IF conf.raised THEN [raised |-> TRUE, score |-> 0, factors |-> <<>>]
        ELSE [raised  |-> FALSE,
              score   |-> conf.score + qual.score,
              factors |-> conf.factors \o qual.factors]

\* mutant of determine_risk_level: the bands end at 25, 50 and 80
determine_risk_level_ShiftedBands(total_score) ==
    IF total_score <= 25 THEN "LOW"
    ELSE IF total_score <= 50 THEN "MEDIUM"
    ELSE IF total_score <= 80 THEN "HIGH"
    ELSE "CRITICAL"

\* scorer.py:79-90
determine_risk_level(total_score) ==
    IF total_score <= 24 THEN "LOW"
    ELSE IF total_score <= 49 THEN "MEDIUM"
    ELSE IF total_score <= 79 THEN "HIGH"
    ELSE "CRITICAL"

\* min(a, b)
Min(a, b) == IF a <= b THEN a ELSE b

\* mutant of CapScore: the cap is left out
CapScore_NoCap(raw_score) == raw_score

\* scorer.py:105, the cap
CapScore(raw_score) == Min(raw_score, 100)

\* mutant of calculate_total_risk: the quality score is subtracted
calculate_total_risk_Subtracts(incs, golden, docs) ==
    LET inc  == calculate_inconsistency_score(incs)
        qual == calculate_extraction_quality_score(golden, docs)
        raw_score   == inc.score - qual.score
        final_score == CapScore(raw_score)
    IN  IF qual.raised THEN [raised |-> TRUE]
        ELSE [raised       |-> FALSE,
              risk_score   |-> final_score,
              raw_score    |-> raw_score,
              risk_level   |-> determine_risk_level(final_score),
              is_high_risk |-> final_score > 50,
              risk_factors |-> inc.factors \o qual.factors]

\* scorer.py:92-116; raised = the call ended with an exception
calculate_total_risk(incs, golden, docs) ==
    LET inc  == calculate_inconsistency_score(incs)
        qual == calculate_extraction_quality_score(golden, docs)
        raw_score   == inc.score + qual.score
        final_score == CapScore(raw_score)
    IN  IF qual.raised THEN [raised |-> TRUE]
        ELSE [raised       |-> FALSE,
              risk_score   |-> final_score,
              raw_score    |-> raw_score,
              risk_level   |-> determine_risk_level(final_score),
              is_high_risk |-> final_score > 50,
              risk_factors |-> inc.factors \o qual.factors]

(***************************************************************************)
(* validator/rules.py: levenshtein_distance, validate_names,               *)
(* validate_ssn_dob                                                        *)
(***************************************************************************)
WhitespaceChars == {" ", "\t", "\n", "\r"}

\* str.strip()
RECURSIVE LStrip(_)
LStrip(s) == IF s # <<>> /\ Head(s) \in WhitespaceChars THEN LStrip(Tail(s)) ELSE s
RECURSIVE RStrip(_)
RStrip(s) ==
    IF s # <<>> /\ s[Len(s)] \in WhitespaceChars
    THEN RStrip(SubSeq(s, 1, Len(s) - 1)) ELSE s
Strip(s) == RStrip(LStrip(s))

Min3(a, b, c) == Min(a, Min(b, c))

\* rules.py:26-31: current_row after the inner loop has run j times
\* (Python's previous_row[j] is previous_row[j + 1] here)
RECURSIVE LevCurrentRow(_, _, _, _, _)
\* mutant of LevCurrentRow: a substitution costs 1 even for equal characters
LevCurrentRow_EqualCharsCost(previous_row, i, c1, s2, j) ==
    IF j = 0 THEN <<i + 1>>
    ELSE LET current_row   == LevCurrentRow(previous_row, i, c1, s2, j - 1)
             insertions    == previous_row[j + 1] + 1
             deletions     == current_row[j] + 1
             substitutions == previous_row[j] + 1
         IN  Append(current_row, Min3(insertions, deletions, substitutions))

LevCurrentRow(previous_row, i, c1, s2, j) ==
    IF j = 0 THEN <<i + 1>>
    ELSE LET current_row   == LevCurrentRow(previous_row, i, c1, s2, j - 1)
             c2            == s2[j]
             insertions    == previous_row[j + 1] + 1
             deletions     == current_row[j] + 1
             substitutions == previous_row[j] + (IF c1 # c2 THEN 1 ELSE 0)
         IN  Append(current_row, Min3(insertions, deletions, substitutions))

\* rules.py:24-32: previous_row after the outer loop has run n times
RECURSIVE LevPreviousRow(_, _, _)
LevPreviousRow(s1, s2, n) ==
    IF n = 0 THEN [k \in 1..(Len(s2) + 1) |-> k - 1]
    ELSE LevCurrentRow(LevPreviousRow(s1, s2, n - 1), n - 1, s1[n], s2, Len(s2))

\* rules.py:19-33
RECURSIVE levenshtein_distance(_, _)
levenshtein_distance(s1, s2) ==
    IF Len(s1) < Len(s2) THEN levenshtein_distance(s2, s1)
    ELSE IF Len(s2) = 0 THEN Len(s1)
    ELSE LevPreviousRow(s1, s2, Len(s1))[Len(s2) + 1]

\* mutant of NameMismatch: a distance of 2 is flagged too
NameMismatch_AtTwo(dist) == dist >= 2

\* rules.py:44
NameMismatch(dist) == dist > 2

\* rules.py:41-52, one pair (i, j) of the double loop
NamePair(nms, i, j) ==
    LET name1 == Strip(Lower(nms[i].value))
        name2 == Strip(Lower(nms[j].value))
        dist  == levenshtein_distance(name1, name2)
    IN  IF NameMismatch(dist)
        THEN << [field            |-> s_name,
                 severity         |-> "HIGH",
                 expected_value   |-> nms[i].value,
                 actual_value     |-> nms[j].value,
                 source_documents |-> <<nms[i].source, nms[j].source>>,
                 distance         |-> dist] >>
        ELSE <<>>

\* rules.py:39-52, the inner loop for j in range(i + 1, upto)
RECURSIVE NameInnerLoop(_, _, _)
NameInnerLoop(nms, i, upto) ==
    IF upto <= i THEN <<>>
    ELSE NameInnerLoop(nms, i, upto - 1) \o NamePair(nms, i, upto)

\* rules.py:38-52, the outer loop for i in range(upto)
RECURSIVE NameOuterLoop(_, _)
NameOuterLoop(nms, upto) ==
    IF upto = 0 THEN <<>>
    ELSE NameOuterLoop(nms, upto - 1) \o NameInnerLoop(nms, upto, Len(nms))

\* rules.py:35-53
validate_names(nms) == NameOuterLoop(nms, Len(nms))

\* mutant of ValueMismatch: the values are lower-cased and trimmed before the test
ValueMismatch_Normalizes(val, baseline) ==
    Strip(Lower(val.value)) # Strip(Lower(baseline.value))

\* rules.py:62
ValueMismatch(val, baseline) == val.value # baseline.value

\* rules.py:61-70, the loop over values[1:], after it has seen `upto` candidates
RECURSIVE ValueLoop(_, _, _)
ValueLoop(vals, fname, upto) ==
    IF upto <= 1 THEN <<>>
    ELSE LET baseline == vals[1]
             val      == vals[upto]
         IN  ValueLoop(vals, fname, upto - 1) \o
             (IF ValueMismatch(val, baseline)
              THEN << [field            |-> fname,
                       severity         |-> "CRITICAL",
                       expected_value   |-> baseline.value,
                       actual_value     |-> val.value,
                       source_documents |-> <<baseline.source, val.source>>] >>
              ELSE <<>>)

\* mutant of validate_ssn_dob: the last candidate is not compared
validate_ssn_dob_SkipsLast(vals, fname) ==
    IF vals = <<>> THEN <<>> ELSE ValueLoop(vals, fname, Len(vals) - 1)

\* rules.py:55-71
validate_ssn_dob(vals, fname) ==
    IF vals = <<>> THEN <<>> ELSE ValueLoop(vals, fname, Len(vals))

(***************************************************************************)
(* Python float: an IEEE 754 binary64 number, kept as sign, 53-bit         *)
(* significand m and exponent e, value m * 2^e; zero has m = <<>>, e = 0.  *)
(* The significand and every exact intermediate result is a natural number *)
(* written little-endian in limbs of 15 bits.                              *)
(***************************************************************************)
LimbBase == 32768
LimbBits == 15
SignificandBits == 53

RECURSIVE BigFromInt(_)
BigFromInt(n) == IF n = 0 THEN <<>> ELSE <<n % LimbBase>> \o BigFromInt(n \div LimbBase)

RECURSIVE BigTrim(_)
BigTrim(a) ==
    IF a # <<>> /\ a[Len(a)] = 0 THEN BigTrim(SubSeq(a, 1, Len(a) - 1)) ELSE a

Limb(a, i) == IF i <= Len(a) THEN a[i] ELSE 0

RECURSIVE BigAddFrom(_, _, _, _)
BigAddFrom(a, b, i, carry) ==
    IF i > Len(a) /\ i > Len(b)
    THEN IF carry = 0 THEN <<>> ELSE <<carry>>
    ELSE LET t == Limb(a, i) + Limb(b, i) + carry
         IN  <<t % LimbBase>> \o BigAddFrom(a, b, i + 1, t \div LimbBase)

BigAdd(a, b) == Only({ BigAddFrom(x, y, 1, 0) : x \in {a}, y \in {b} })

\* a - b for a >= b
RECURSIVE BigSubFrom(_, _, _, _)
BigSubFrom(a, b, i, borrow) ==
    IF i > Len(a) THEN <<>>
    ELSE LET t == Limb(a, i) - Limb(b, i) - borrow
         IN  <<IF t < 0 THEN t + LimbBase ELSE t>> \o
             BigSubFrom(a, b, i + 1, IF t < 0 THEN 1 ELSE 0)

BigSub(a, b) == Only({ BigTrim(BigSubFrom(x, y, 1, 0)) : x \in {a}, y \in {b} })

RECURSIVE BigMulFrom(_, _, _, _)
BigMulFrom(a, k, i, carry) ==
    IF i > Len(a)
    THEN IF carry = 0 THEN <<>> ELSE <<carry>>
    ELSE LET t == a[i] * k + carry
         IN  <<t % LimbBase>> \o BigMulFrom(a, k, i + 1, t \div LimbBase)

\* a * k for 0 < k < LimbBase
BigMulSmall(a, k) == Only({ BigMulFrom(x, k, 1, 0) : x \in {a} })

\* a >= b
BigGeq(a, b) ==
    IF Len(a) # Len(b) THEN Len(a) > Len(b)
    ELSE LET differ == { i \in 1..Len(a) : a[i] # b[i] }
         IN  IF differ = {} THEN TRUE
             ELSE LET top == CHOOSE i \in differ : \A j \in differ : j <= i
                  IN  a[top] > b[top]

RECURSIVE Pow2(_)
Pow2(n) == IF n = 0 THEN 1 ELSE 2 * Pow2(n - 1)

RECURSIVE BitsOf(_)
BitsOf(n) == IF n = 0 THEN 0 ELSE 1 + BitsOf(n \div 2)

BitLength(a) == IF a = <<>> THEN 0 ELSE LimbBits * (Len(a) - 1) + BitsOf(a[Len(a)])

\* a * 2^n
BigShiftLeft(a, n) ==
    IF a = <<>> THEN <<>>
    ELSE [i \in 1..(n \div LimbBits) |-> 0] \o BigMulSmall(a, Pow2(n % LimbBits))

\* one bit of a quotient: state = <<quotient so far, doubled remainder>>
DivideStep(state, divisor) ==
    IF BigGeq(state[2], divisor)
    THEN Only({ <<BigAdd(BigAdd(state[1], state[1]), <<1>>), BigAdd(r, r)>> :
                    r \in {BigSub(state[2], divisor)} })
    ELSE <<BigAdd(state[1], state[1]), BigAdd(state[2], state[2])>>

\* the next steps bits of the quotient
RECURSIVE DivideSteps(_, _, _)
DivideSteps(state, divisor, steps) ==
    IF steps = 0 THEN state
    ELSE IF steps = 1 THEN DivideStep(state, divisor)
    ELSE Only({ DivideSteps(half, divisor, steps - steps \div 2) :
                    half \in {DivideSteps(state, divisor, steps \div 2)} })

Zero == [neg |-> FALSE, m |-> <<>>, e |-> 0]

\* the float nearest to p / q * 2^e (ties to even), for naturals p and q > 0
RoundQuotient(neg, p, q, e) ==
    IF p = <<>> THEN [Zero EXCEPT !.neg = neg]
    ELSE LET d == BitLength(p) - BitLength(q)
             P0 == IF d < 0 THEN BigShiftLeft(p, 0 - d) ELSE p
             T  == IF d > 0 THEN BigShiftLeft(q, d) ELSE q
             low == ~BigGeq(P0, T)
             P  == IF low THEN BigAdd(P0, P0) ELSE P0
             e0 == e + d - (IF low THEN 1 ELSE 0) - (SignificandBits - 1)
             Finish(qr) ==
                 LET up == IF qr[2] = T THEN qr[1] # <<>> /\ qr[1][1] % 2 = 1 ELSE BigGeq(qr[2], T)
                     m  == IF up THEN BigAdd(qr[1], <<1>>) ELSE qr[1]
                 IN  IF BitLength(m) > SignificandBits
                     THEN [neg |-> neg, m |-> BigShiftLeft(<<1>>, SignificandBits - 1), e |-> e0 + 1]
                     ELSE [neg |-> neg, m |-> m, e |-> e0]
         IN  Only({ Finish(qr) : qr \in { Only({ DivideSteps(<<<<>>, PP>>, TT, SignificandBits) :
                                           PP \in {P}, TT \in {T} }) } })

\* float(n) of an int
FloatFromInt(n) == RoundQuotient(n < 0, BigFromInt(IF n < 0 THEN 0 - n ELSE n), <<1>>, 0)

FloatIsZero(a) == a.m = <<>>

\* float + float
FloatAdd(a, b) ==
    IF FloatIsZero(a) /\ FloatIsZero(b) THEN [Zero EXCEPT !.neg = a.neg /\ b.neg]
    ELSE IF FloatIsZero(a) THEN b
    ELSE IF FloatIsZero(b) THEN a
    ELSE LET e == IF a.e <= b.e THEN a.e ELSE b.e
             Sum(pa, pb) ==
                 IF a.neg = b.neg THEN RoundQuotient(a.neg, BigAdd(pa, pb), <<1>>, e)
                 ELSE IF pa = pb THEN Zero
                 ELSE IF BigGeq(pa, pb) THEN RoundQuotient(a.neg, BigSub(pa, pb), <<1>>, e)
                 ELSE RoundQuotient(b.neg, BigSub(pb, pa), <<1>>, e)
         IN  Only({ Sum(pa, pb) : pa \in {BigShiftLeft(a.m, a.e - e)},
                                  pb \in {BigShiftLeft(b.m, b.e - e)} })

\* float / float for a divisor other than zero
FloatDiv(a, b) == RoundQuotient(a.neg # b.neg, a.m, b.m, a.e - b.e)

\* float * k for an int 0 < k < LimbBase
FloatMulInt(a, k) == RoundQuotient(a.neg, BigMulSmall(a.m, k), <<1>>, a.e)

\* |a| >= |b|
MagnitudeGeq(a, b) ==
    IF FloatIsZero(b) THEN TRUE
    ELSE IF FloatIsZero(a) THEN FALSE
    ELSE IF a.e # b.e THEN a.e > b.e
    ELSE BigGeq(a.m, b.m)

\* a > b
FloatGt(a, b) ==
    IF FloatIsZero(a) /\ FloatIsZero(b) THEN FALSE
    ELSE IF a.neg # b.neg THEN b.neg
    ELSE IF a.neg THEN MagnitudeGeq(b, a) /\ ~MagnitudeGeq(a, b)
    ELSE MagnitudeGeq(a, b) /\ ~MagnitudeGeq(b, a)

(***************************************************************************)
(* validator/rules.py: validate_income                                     *)
(***************************************************************************)
Digits == <<"0","1","2","3","4","5","6","7","8","9">>

IsDigit(c) == \E d \in 1..Len(Digits) : Digits[d] = c
DigitValue(c) == (CHOOSE d \in 1..Len(Digits) : Digits[d] = c) - 1

\* the natural number written by a string of decimal digits
RECURSIVE BigFromDigits(_)
BigFromDigits(s) ==
    IF s = <<>> THEN <<>>
    ELSE Only({ BigAdd(BigMulSmall(front, 10), BigFromInt(DigitValue(s[Len(s)]))) :
                    front \in {BigFromDigits(SubSeq(s, 1, Len(s) - 1))} })

RECURSIVE BigPow10(_)
BigPow10(n) == IF n = 0 THEN <<1>> ELSE BigMulSmall(BigPow10(n - 1), 10)

\* str.replace(c, ''): every occurrence of the character is removed
RemoveChar(s, c) == SelectSeq(s, LAMBDA x : x # c)

\* float(text) for plain decimal text: optional blanks around, an optional
\* sign, digits with at most one point; the value is the float nearest to the
\* decimal number.  ok = FALSE is ValueError.  (Exponents, underscores, inf
\* and nan do not occur in the values of the model.)
ParseFloat(text) ==
    LET t        == Strip(text)
        signed   == t # <<>> /\ Head(t) \in {"+", "-"}
        body     == IF signed THEN Tail(t) ELSE t
        points   == { i \in 1..Len(body) : body[i] = "." }
        whole    == IF points = {} THEN body
                    ELSE SubSeq(body, 1, (CHOOSE i \in points : TRUE) - 1)
        fraction == IF points = {} THEN <<>>
                    ELSE SubSeq(body, (CHOOSE i \in points : TRUE) + 1, Len(body))
        ok       == /\ Cardinality(points) <= 1
                    /\ Len(whole) + Len(fraction) >= 1
                    /\ \A i \in 1..Len(whole) : IsDigit(whole[i])
                    /\ \A i \in 1..Len(fraction) : IsDigit(fraction[i])
    IN  IF ok
        THEN [ok |-> TRUE,
              float |-> RoundQuotient(signed /\ Head(t) = "-", BigFromDigits(whole \o fraction),
                                      BigPow10(Len(fraction)), 0)]
        ELSE [ok |-> FALSE]

\* rules.py:80-81: float(str(value).replace(',', '').replace('$', ''))
ParseAmount(value) == ParseFloat(RemoveChar(RemoveChar(value, ","), "$"))

\* rules.py:80: sum([...]) of the first n parsed wages, added left to right
\* from the int 0
RECURSIVE SumWages(_, _)
SumWages(w2_wages, n) ==
    IF n = 0 THEN FloatFromInt(0)
    ELSE Only({ FloatAdd(before, wage) :
                    before \in {SumWages(w2_wages, n - 1)},
                    wage \in {ParseAmount(w2_wages[n].value).float} })

\* rules.py:83-84: abs(total_w2_income - agi_value) / max(total_w2_income, 1) * 100
DiscrepancyPercentage(total_w2_income, agi_value) ==
    LET FloatNeg(a) == [a EXCEPT !.neg = ~a.neg]
        FloatAbs(a) == [a EXCEPT !.neg = FALSE]
        FloatSub(a, b) == FloatAdd(a, FloatNeg(b))
        MaxWithOne ==
            IF FloatGt(FloatFromInt(1), total_w2_income) THEN FloatFromInt(1)
            ELSE total_w2_income
    IN  Only({ FloatMulInt(ratio, 100) :
                   ratio \in { Only({ FloatDiv(difference, MaxWithOne) :
                                       difference \in {FloatAbs(FloatSub(total_w2_income, agi_value))} }) } })

\* rules.py:73-99; tax_agi is NoField when the handler found none
validate_income(w2_wages, tax_agi) ==
    IF w2_wages = <<>> \/ tax_agi = NoField THEN <<>>
    ELSE IF \/ \E i \in 1..Len(w2_wages) : ~ParseAmount(w2_wages[i].value).ok
            \/ ~ParseAmount(tax_agi.value).ok
         THEN <<>>
    ELSE LET Compare(total_w2_income, agi_value, discrepancy_percentage) ==
                 IF FloatGt(discrepancy_percentage, FloatFromInt(5))
                 THEN << [field            |-> s_income,
                          severity         |-> IF FloatGt(discrepancy_percentage, FloatFromInt(10))
                                               THEN "HIGH" ELSE "MEDIUM",
                          expected_value   |-> [float |-> total_w2_income],
                          actual_value     |-> [float |-> agi_value],
                          source_documents |-> [i \in 1..Len(w2_wages) |-> w2_wages[i].source]
                                               \o <<tax_agi.source>>] >>
                 ELSE <<>>
             Totals(total_w2_income, agi_value) ==
                 Only({ Compare(total_w2_income, agi_value, discrepancy_percentage) :
                            discrepancy_percentage \in
                                {DiscrepancyPercentage(total_w2_income, agi_value)} })
         IN  Only({ Totals(total_w2_income, agi_value) :
                        total_w2_income \in {SumWages(w2_wages, Len(w2_wages))},
                        agi_value \in {ParseAmount(tax_agi.value).float} })

(***************************************************************************)
(* validator/rules.py: parse_address_components, semantic_component_match, *)
(* validate_addresses                                                      *)
(*                                                                         *)
(* An address component is NoField (None) or [str |-> text].  The Bedrock  *)
(* model is an oracle: for each component type it answers with a text or   *)
(* the call raises.                                                        *)
(***************************************************************************)
\* str.upper(), character by character
Upper(s) ==
    [i \in 1..Len(s) |->
        IF \E k \in 1..Len(LowerChars) : LowerChars[k] = s[i]
        THEN UpperChars[CHOOSE k \in 1..Len(LowerChars) : LowerChars[k] = s[i]]
        ELSE s[i]]

\* str.split(sep): the pieces of s between the occurrences of character sep
RECURSIVE SplitOn(_, _)
SplitOn(s, sep) ==
    IF \A i \in 1..Len(s) : s[i] # sep THEN <<s>>
    ELSE LET k == CHOOSE i \in 1..Len(s) : s[i] = sep /\ \A j \in 1..(i - 1) : s[j] # sep
         IN  <<SubSeq(s, 1, k - 1)>> \o SplitOn(SubSeq(s, k + 1, Len(s)), sep)

\* str.split(): the maximal runs of non-whitespace characters
RECURSIVE SplitWhitespace(_)
SplitWhitespace(s) ==
    LET t == LStrip(s)
    IN  IF t = <<>> THEN <<>>
        ELSE LET blanks == { i \in 1..Len(t) : t[i] \in WhitespaceChars }
                 k == IF blanks = {} THEN Len(t) + 1
                      ELSE CHOOSE i \in blanks : \A j \in blanks : i <= j
             IN  <<SubSeq(t, 1, k - 1)>> \o SplitWhitespace(SubSeq(t, k, Len(t)))

Some(text) == [str |-> text]

\* truth value of a component in `if components1['street'] and ...`
ComponentTruthy(c) == c # NoField /\ c.str # <<>>

\* rules.py:132-177
parse_address_components(address) ==
    IF address = <<>>
    THEN [street |-> NoField, city |-> NoField, state |-> NoField, zip |-> NoField]
    ELSE LET split == SplitOn(Strip(address), ",")
             parts == [i \in 1..Len(split) |-> Strip(split[i])]
             state_zip_parts == IF Len(parts) >= 3 THEN SplitWhitespace(Strip(parts[3])) ELSE <<>>
         IN  [street |-> IF Len(parts) >= 1 THEN Some(parts[1]) ELSE NoField,
              city   |-> IF Len(parts) >= 2 THEN Some(parts[2]) ELSE NoField,
              state  |-> IF Len(state_zip_parts) >= 1 THEN Some(state_zip_parts[1]) ELSE NoField,
              zip    |-> IF Len(state_zip_parts) >= 2
                         THEN Some(state_zip_parts[Len(state_zip_parts)]) ELSE NoField]

s_YES == <<"Y","E","S">>
s_NO  == <<"N","O">>

\* a variant that takes a failed oracle call for an answer of YES
semantic_component_match_FailureMatches(component1, component2, component_type, oracle) ==
    IF component1 = <<>> \/ component2 = <<>> THEN component1 = component2
    ELSE IF Strip(Lower(component1)) = Strip(Lower(component2)) THEN TRUE
    ELSE IF "raises" \in DOMAIN oracle[component_type] THEN TRUE
    ELSE Upper(Strip(oracle[component_type].text)) = s_YES

\* rules.py:179-229; oracle[component_type] is what invoke_model does
semantic_component_match(component1, component2, component_type, oracle) ==
    IF component1 = <<>> \/ component2 = <<>> THEN component1 = component2
    ELSE LET c1_normalized == Strip(Lower(component1))
             c2_normalized == Strip(Lower(component2))
         IN  IF c1_normalized = c2_normalized THEN TRUE
             ELSE IF "raises" \in DOMAIN oracle[component_type]
                  THEN c1_normalized = c2_normalized
                  ELSE Upper(Strip(oracle[component_type].text)) = s_YES

\* a variant that finds a mismatch in every component
ComponentMismatch_Always(c1, c2, component_type, oracle) == TRUE

\* rules.py:255-276: street, city or state of the two addresses mismatch
ComponentMismatch(c1, c2, component_type, oracle) ==
    IF ComponentTruthy(c1) /\ ComponentTruthy(c2)
    THEN ~semantic_component_match(c1.str, c2.str, component_type, oracle)
    ELSE c1 # c2

\* a variant that compares the ZIP codes only when both addresses have one
ZipMismatch_BothPresentOnly(z1, z2) ==
    ComponentTruthy(z1) /\ ComponentTruthy(z2) /\ Strip(Lower(z1.str)) # Strip(Lower(z2.str))

\* rules.py:277-283: the ZIP codes of the two addresses mismatch
ZipMismatch(z1, z2) ==
    IF ComponentTruthy(z1) /\ ComponentTruthy(z2)
    THEN Strip(Lower(z1.str)) # Strip(Lower(z2.str))
    ELSE z1 # z2

\* rules.py:245-296, one pair (i, j) of the double loop; mismatched_components
\* is what the description lists
AddressPair(addresses, i, j, oracle) ==
    LET addr1 == addresses[i].value
        addr2 == addresses[j].value
        Entry(name, c1, c2) == << [component |-> name, first |-> c1, second |-> c2] >>
        Mismatched(components1, components2) ==
            (IF ComponentMismatch(components1.street, components2.street, "street", oracle)
             THEN Entry("street", components1.street, components2.street) ELSE <<>>) \o
            (IF ComponentMismatch(components1.city, components2.city, "city", oracle)
             THEN Entry("city", components1.city, components2.city) ELSE <<>>) \o
            (IF ComponentMismatch(components1.state, components2.state, "state", oracle)
             THEN Entry("state", components1.state, components2.state) ELSE <<>>) \o
            (IF ZipMismatch(components1.zip, components2.zip)
             THEN Entry("ZIP", components1.zip, components2.zip) ELSE <<>>)
        Flag(mismatched_components) ==
            IF mismatched_components # <<>>
            THEN << [field            |-> s_address,
                     severity         |-> "HIGH",
                     expected_value   |-> addr1,
                     actual_value     |-> addr2,
                     source_documents |-> <<addresses[i].source, addresses[j].source>>,
                     mismatched_components |-> mismatched_components] >>
            ELSE <<>>
    IN  Only({ Flag(mismatched_components) :
                   mismatched_components \in
                       { Mismatched(components1, components2) :
                             components1 \in {parse_address_components(addr1)},
                             components2 \in {parse_address_components(addr2)} } })

\* rules.py:244-296, the inner loop for j in range(i + 1, upto)
RECURSIVE AddressInnerLoop(_, _, _, _)
AddressInnerLoop(addresses, i, upto, oracle) ==
    IF upto <= i THEN <<>>
    ELSE AddressInnerLoop(addresses, i, upto - 1, oracle) \o AddressPair(addresses, i, upto, oracle)

\* rules.py:243-296, the outer loop for i in range(upto)
RECURSIVE AddressOuterLoop(_, _, _)
AddressOuterLoop(addresses, upto, oracle) ==
    IF upto = 0 THEN <<>>
    ELSE AddressOuterLoop(addresses, upto - 1, oracle) \o
         AddressInnerLoop(addresses, upto, Len(addresses), oracle)

\* rules.py:231-298
validate_addresses(addresses, oracle) == AddressOuterLoop(addresses, Len(addresses), oracle)

\* a variant that asks Bedrock before comparing the normalized components
invoke_model_calls_BeforeComparison(component1, component2, component_type) ==
    IF component1 = <<>> \/ component2 = <<>> THEN <<>>
    ELSE << [component_type |-> component_type,
             component1 |-> component1, component2 |-> component2] >>

\* rules.py:184-222: the invoke_model calls of one semantic_component_match,
\* each with what its prompt holds; the call is made whatever Bedrock does next
invoke_model_calls(component1, component2, component_type) ==
    IF component1 = <<>> \/ component2 = <<>> THEN <<>>
    ELSE IF Strip(Lower(component1)) = Strip(Lower(component2)) THEN <<>>
    ELSE << [component_type |-> component_type,
             component1 |-> component1, component2 |-> component2] >>

\* rules.py:255-276: the calls for the street, city and state of one pair of
\* addresses; nothing is asked about the ZIP codes (rules.py:277-283)
PairCalls(addresses, i, j) ==
    LET components1 == parse_address_components(addresses[i].value)
        components2 == parse_address_components(addresses[j].value)
        Asked(c1, c2, component_type) ==
            IF ComponentTruthy(c1) /\ ComponentTruthy(c2)
            THEN invoke_model_calls(c1.str, c2.str, component_type) ELSE <<>>
        calls == Asked(components1.street, components2.street, "street") \o
                 Asked(components1.city, components2.city, "city") \o
                 Asked(components1.state, components2.state, "state")
    IN  \* between: the sources of the pair the call was made for
        [k \in 1..Len(calls) |->
            [component_type |-> calls[k].component_type,
             component1 |-> calls[k].component1, component2 |-> calls[k].component2,
             between |-> <<addresses[i].source, addresses[j].source>>]]

\* rules.py:243-246: the calls of the first upto pairs (i, j) of the double
\* loop, the pairs counted row by row and only those with i < j taken
RECURSIVE BedrockCalls(_, _)
BedrockCalls(addresses, upto) ==
    IF upto = 0 THEN <<>>
    ELSE LET i == ((upto - 1) \div Len(addresses)) + 1
             j == ((upto - 1) % Len(addresses)) + 1
         IN  BedrockCalls(addresses, upto - 1) \o
             (IF i < j THEN PairCalls(addresses, i, j) ELSE <<>>)

(***************************************************************************)
(* The rules: inputs and operations.  The k-th candidate of a list comes   *)
(* from the k-th document, as in validator/app.py:125-128, 332-335.        *)
(***************************************************************************)
MaxNames == 3    \* longest list of name candidates
MaxValues == 3   \* longest list of SSN / DOB candidates

DocIdList == <<"doc-1", "doc-2", "doc-3", "doc-4", "doc-5">>

\* names at normalized distance 0, 1, 2, 3 and 4 of each other
NameValues ==
    { <<"a","b","c","d">>,
      <<" ","A","B","c","D"," ">>,
      <<"a","b","c","x">>,
      <<"a","b","x","y">>,
      <<"a","x","y","z">>,
      <<"w","x","y","z">>,
      <<"a","b">> }

\* SSN / DOB texts: equal, different, and equal but for case or a trailing blank
IdValues ==
    { <<"1","5","-","j","u","n">>,
      <<"1","5","-","J","U","N">>,
      <<"1","5","-","j","u","n"," ">>,
      <<"1","6","-","j","u","n">> }

\* wage and income texts: whole dollars, cents, currency formatting, and a
\* text that is no number
WageValues ==
    { <<"1",".","0","0">>,
      <<"1",".","2","0">>,
      <<"1","0","0">>,
      <<"$","7","8",",","7","2","5",".","4","0">>,
      <<"N","/","A">> }

AgiValues ==
    { <<"1",".","0","5">>,
      <<"1",".","1","0">>,
      <<"2",".","1","0">>,
      <<"1","0","5">>,
      <<"1","1","0">>,
      <<"1","1","1">>,
      <<"$","8","2",",","6","6","1",".","6","7">>,
      <<"p","e","n","d","i","n","g">> }

MaxWages == 2    \* longest list of W2 wage candidates

\* address texts: a full address, the same in another case and spacing, with
\* the street written out, with another ZIP, without state and ZIP, and with
\* an empty city
AddressValues ==
    { <<"1"," ","m",","," ","s",","," ","i","l"," ","6">>,
      <<"1"," ","M",",","s",",","I","L"," "," ","6"," ">>,
      <<"1"," ","m"," ","s","t",","," ","s",","," ","i","l"," ","6">>,
      <<"1"," ","m",","," ","s",","," ","i","l"," ","7">>,
      <<"1"," ","m",","," ","s">>,
      <<"1"," ","m",",">> }

ComponentTypes == {"street", "city", "state"}

\* Bedrock models: always a padded lower-case yes, always NO, always failing,
\* and one that differs by component type
BedrockPool ==
    { [t \in ComponentTypes |-> [text |-> <<" ","y","e","s","\n">>]],
      [t \in ComponentTypes |-> [text |-> s_NO]],
      [t \in ComponentTypes |-> [raises |-> TRUE]],
      [t \in ComponentTypes |-> IF t = "street" THEN [text |-> s_YES] ELSE [raises |-> TRUE]] }

MaxAddresses == 3   \* longest list of address candidates

\* validator/app.py:125-135: one more name candidate, then validate_names
ValidateOneMoreName(value) ==
    /\ Len(names) < MaxNames
    /\ names' = Append(names, [value |-> value, source |-> DocIdList[Len(names) + 1]])
    /\ name_inconsistencies' = validate_names(names')
    /\ UNCHANGED <<scorerVars, valueVars, loaded_documents, pipelineVars, ruleVars, utilityVars>>

\* validator/app.py:332-342, 388-398: one more candidate, then validate_ssn_dob
ValidateOneMoreValue(value, fname) ==
    /\ Len(values) < MaxValues
    /\ values = <<>> \/ fname = field_name
    /\ values' = Append(values, [value |-> value, source |-> DocIdList[Len(values) + 1]])
    /\ field_name' = fname
    /\ value_inconsistencies' = validate_ssn_dob(values', fname)
    /\ UNCHANGED <<scorerVars, nameVars, loaded_documents, pipelineVars, ruleVars, utilityVars>>

\* validator/app.py:217-289: one more W2 is loaded, then validate_income
ValidateOneMoreWage(value) ==
    /\ Len(wage_candidates) < MaxWages
    /\ wage_candidates' = Append(wage_candidates,
                                 [value |-> value, source |-> DocIdList[Len(wage_candidates) + 1]])
    /\ income_inconsistencies' = validate_income(wage_candidates', agi_candidate)
    /\ UNCHANGED <<agi_candidate, addressVars>>
    /\ UNCHANGED <<scorerVars, nameVars, valueVars, loaded_documents, pipelineVars, utilityVars>>

\* validator/app.py:250-289: the tax form is loaded, then validate_income
ValidateWithTaxForm(value) ==
    /\ agi_candidate = NoField
    /\ agi_candidate' = [value |-> value, source |-> "doc-tax"]
    /\ income_inconsistencies' = validate_income(wage_candidates, agi_candidate')
    /\ UNCHANGED <<wage_candidates, addressVars>>
    /\ UNCHANGED <<scorerVars, nameVars, valueVars, loaded_documents, pipelineVars, utilityVars>>

\* validator/app.py:144-182: one more document with an address is loaded,
\* then validate_addresses with the Bedrock model of this invocation
ValidateOneMoreAddress(value, oracle) ==
    /\ Len(address_candidates) < MaxAddresses
    /\ address_candidates' = Append(address_candidates,
                                    [value |-> value,
                                     source |-> DocIdList[Len(address_candidates) + 1]])
    /\ address_oracle' = oracle
    /\ address_inconsistencies' = validate_addresses(address_candidates', oracle)
    /\ bedrock_calls' = BedrockCalls(address_candidates', Len(address_candidates') * Len(address_candidates'))
    /\ UNCHANGED incomeVars
    /\ UNCHANGED <<scorerVars, nameVars, valueVars, loaded_documents, pipelineVars, utilityVars>>

\* nothing has run yet: the scorer's result is that of an empty event, the
\* distance that of two empty strings, every list is empty
Init ==
    /\ inconsistencies = <<>> /\ golden_record = <<>> /\ documents = <<>>
    /\ risk_assessment = calculate_total_risk(<<>>, <<>>, <<>>)
    /\ names = <<>> /\ name_inconsistencies = <<>>
    /\ values = <<>> /\ field_name = s_ssn /\ value_inconsistencies = <<>>
    /\ wage_candidates = <<>> /\ agi_candidate = NoField /\ income_inconsistencies = <<>>
    /\ address_candidates = <<>> /\ address_oracle = NoField
    /\ address_inconsistencies = <<>> /\ bedrock_calls = <<>>
    /\ loaded_documents = <<>>
    /\ event = NoField /\ bedrock = NoField
    /\ response = NoField /\ risk_response = NoField
    /\ previous_response = NoField /\ previous_risk_response = NoField
    /\ lev_s1 = <<>> /\ lev_s2 = <<>> /\ lev_distance = levenshtein_distance(<<>>, <<>>)
    /\ check_phase = [check \in {"name", "address", "income", "date_of_birth", "ssn"} |-> "idle"]
    /\ check_fields = [check \in {"name", "address", "income", "date_of_birth", "ssn"} |-> <<>>]
    /\ merged = <<>>
    /\ alert_call = NoField /\ sns_published = <<>> /\ alerts_triggered = <<>>
    /\ aggregated_data = <<>> /\ aggregated_record = <<>>
    /\ analyze_call = NoField /\ textract_requests = <<>> /\ textract_failures = <<>>
    /\ sleeps = <<>> /\ analyze_outcome = NoField

NextNames == \E value \in NameValues : ValidateOneMoreName(value)

SpecNames == Init /\ [][NextNames]_vars

\* rules.py:19-33: levenshtein_distance is called on two strings
ComputeDistance(a, b) ==
    /\ lev_s1' = a /\ lev_s2' = b
    /\ lev_distance' = levenshtein_distance(a, b)
    /\ UNCHANGED <<scorerVars, nameVars, valueVars, ruleVars, loaded_documents, pipelineVars, checkVars, alertVars, aggregatedVars, retryVars>>

MaxLen == 4   \* longest string given to levenshtein_distance

\* the strings of up to MaxLen characters over two characters
Strings == UNION { [1..n -> {"a", "b"}] : n \in 0..MaxLen }

NextDistance == \E a \in Strings, b \in Strings : ComputeDistance(a, b)

SpecDistance == Init /\ [][NextDistance]_vars

NextValues ==
    \E value \in IdValues, fname \in {s_ssn, s_date_of_birth} :
        ValidateOneMoreValue(value, fname)

SpecValues == Init /\ [][NextValues]_vars

NextIncome ==
    \/ \E value \in WageValues : ValidateOneMoreWage(value)
    \/ \E value \in AgiValues : ValidateWithTaxForm(value)

SpecIncome == Init /\ [][NextIncome]_vars

NextAddresses ==
    \E value \in AddressValues, oracle \in BedrockPool : ValidateOneMoreAddress(value, oracle)

SpecAddresses == Init /\ [][NextAddresses]_vars

(***************************************************************************)
(* validator/rules.py: generate_golden_record                              *)
(*                                                                         *)
(* extracted_data maps a field name to field data: a dict or ExtractedField*)
(* is a record with value and (maybe) confidence, a bare value v is        *)
(* [raw |-> v], None is NoField.  A falsy value (None, '') is <<>>.        *)
(***************************************************************************)

\* rules.py:324-334
get_reliability(doc_type) ==
    CASE doc_type = "DRIVERS_LICENSE" -> 4
      [] doc_type = "ID_DOCUMENT"     -> 4
      [] doc_type = "TAX_FORM"        -> 3
      [] doc_type = "W2"              -> 2
      [] doc_type = "BANK_STATEMENT"  -> 1
      [] OTHER                        -> 0

\* rules.py:336-351
extract_field_value(field_data) ==
    IF "none" \in DOMAIN field_data THEN [value |-> <<>>, confidence |-> 0]
    ELSE IF "raw" \in DOMAIN field_data THEN [value |-> field_data.raw, confidence |-> 100]
    ELSE [value      |-> Get(field_data, "value", <<>>),
          confidence |-> Get(field_data, "confidence", 0)]

\* truth value of field data in `if name_field:` (rules.py:430, 460, 482)
FieldTruthy(field_data) ==
    /\ "none" \notin DOMAIN field_data
    /\ "raw" \in DOMAIN field_data => field_data.raw # <<>>

\* extracted_data[key] when doc is of one of the types and has the key
FieldIf(doc, types, key) ==
    IF doc.document_type \in types /\ key \in DOMAIN doc.extracted_data
    THEN doc.extracted_data[key] ELSE NoField

\* the field data the builder reads from doc for each golden record field
\* (rules.py:419-586); annual_income reads wages and adjusted_gross_income
GoldenFieldData(key, doc) ==
    CASE key = "name" ->   \* rules.py:420-428
            << IF doc.document_type = "W2" /\ "employee_name" \in DOMAIN doc.extracted_data
                   THEN doc.extracted_data["employee_name"]
               ELSE IF doc.document_type = "BANK_STATEMENT" /\ "account_holder_name" \in DOMAIN doc.extracted_data
                   THEN doc.extracted_data["account_holder_name"]
               ELSE IF doc.document_type = "TAX_FORM" /\ "taxpayer_name" \in DOMAIN doc.extracted_data
                   THEN doc.extracted_data["taxpayer_name"]
               ELSE IF doc.document_type \in {"DRIVERS_LICENSE", "ID_DOCUMENT"} /\ "full_name" \in DOMAIN doc.extracted_data
                   THEN doc.extracted_data["full_name"]
               ELSE NoField >>
      [] key = "date_of_birth" -> <<FieldIf(doc, {"DRIVERS_LICENSE", "ID_DOCUMENT", "TAX_FORM", "W2", "BANK_STATEMENT", "PASSPORT"},
                                           "date_of_birth")>>
      [] key = "ssn" ->   \* rules.py:454-458
            << IF doc.document_type = "W2" /\ "employee_ssn" \in DOMAIN doc.extracted_data
                   THEN doc.extracted_data["employee_ssn"]
               ELSE IF doc.document_type = "TAX_FORM" /\ "taxpayer_ssn" \in DOMAIN doc.extracted_data
                   THEN doc.extracted_data["taxpayer_ssn"]
               ELSE NoField >>
      [] key = "address" ->   \* rules.py:472-480
            << IF doc.document_type = "W2" /\ "employee_address" \in DOMAIN doc.extracted_data
                   THEN doc.extracted_data["employee_address"]
               ELSE IF doc.document_type = "BANK_STATEMENT" /\ "account_holder_address" \in DOMAIN doc.extracted_data
                   THEN doc.extracted_data["account_holder_address"]
               ELSE IF doc.document_type = "TAX_FORM" /\ "address" \in DOMAIN doc.extracted_data
                   THEN doc.extracted_data["address"]
               ELSE IF doc.document_type = "DRIVERS_LICENSE" /\ "address" \in DOMAIN doc.extracted_data
                   THEN doc.extracted_data["address"]
               ELSE NoField >>
      [] key = "employer"      -> <<FieldIf(doc, {"W2"}, "employer_name")>>
      [] key = "employer_ein"  -> <<FieldIf(doc, {"W2"}, "employer_ein")>>
      [] key = "annual_income" -> <<FieldIf(doc, {"W2"}, "wages"),
                                    FieldIf(doc, {"TAX_FORM"}, "adjusted_gross_income")>>
      [] key = "bank_account"  -> <<FieldIf(doc, {"BANK_STATEMENT"}, "account_number")>>
      [] key = "ending_balance" -> <<FieldIf(doc, {"BANK_STATEMENT"}, "ending_balance")>>
      [] key = "drivers_license_number" -> <<FieldIf(doc, {"DRIVERS_LICENSE"}, "license_number")>>
      [] key = "drivers_license_state"  -> <<FieldIf(doc, {"DRIVERS_LICENSE"}, "state")>>

\* the candidate a piece of field data appends, if any (rules.py:430-439 and alike)
CandidateOf(field_data, doc) ==
    LET got == extract_field_value(field_data)
    IN  IF FieldTruthy(field_data) /\ got.value # <<>>
        THEN << [value           |-> got.value,
                 source_document |-> doc.document_id,
                 confidence      |-> got.confidence,
                 reliability     |-> get_reliability(doc.document_type),
                 doc_type        |-> doc.document_type] >>
        ELSE <<>>

RECURSIVE CandidatesOfDoc(_, _)
CandidatesOfDoc(field_datas, doc) ==
    IF field_datas = <<>> THEN <<>>
    ELSE CandidateOf(Head(field_datas), doc) \o CandidatesOfDoc(Tail(field_datas), doc)

\* rules.py:410-586: the candidate list of one golden record field
RECURSIVE CandidatesFor(_, _)
CandidatesFor(key, docs) ==
    IF docs = <<>> THEN <<>>
    ELSE LET doc == docs[Len(docs)]
         IN  CandidatesFor(key, SubSeq(docs, 1, Len(docs) - 1)) \o
             (IF DOMAIN doc.extracted_data = {} THEN <<>>
              ELSE CandidatesOfDoc(GoldenFieldData(key, doc), doc))

\* mutant of SortKeyAtLeast: the confidence is compared before the reliability
SortKeyAtLeast_ConfidenceFirst(a, b) ==
    \/ a.confidence > b.confidence
    \/ a.confidence = b.confidence /\ a.reliability >= b.reliability

\* rules.py:369: the key (reliability, confidence) of a is >= that of b
SortKeyAtLeast(a, b) ==
    \/ a.reliability > b.reliability
    \/ a.reliability = b.reliability /\ a.confidence >= b.confidence

\* sorted(..., reverse=True) is stable: x goes behind every element whose key
\* is >= its own, so equal keys keep their input order
RECURSIVE InsertSorted(_, _)
InsertSorted(sorted, x) ==
    IF sorted = <<>> THEN <<x>>
    ELSE IF SortKeyAtLeast(Head(sorted), x)
         THEN <<Head(sorted)>> \o InsertSorted(Tail(sorted), x)
         ELSE <<x>> \o sorted

\* rules.py:367-371
RECURSIVE SortCandidates(_)
SortCandidates(candidates) ==
    IF candidates = <<>> THEN <<>>
    ELSE InsertSorted(SortCandidates(SubSeq(candidates, 1, Len(candidates) - 1)),
                      candidates[Len(candidates)])

\* a variant that lists the value of every other candidate as an alternative
select_best_value_AllAlternatives(candidates) ==
    LET sorted_candidates == SortCandidates(candidates)
        best   == sorted_candidates[1]
        rest   == Tail(sorted_candidates)
        same   == SelectSeq(rest, LAMBDA c : c.value = best.value)
    IN  [value              |-> best.value,
         source_document    |-> best.source_document,
         confidence         |-> best.confidence,
         alternative_values |-> [i \in 1..Len(rest) |-> rest[i].value],
         verified_by        |-> [i \in 1..Len(same) |-> same[i].source_document]]

\* a variant that lists the document of every other candidate as verifying
select_best_value_VerifiedByAll(candidates) ==
    LET sorted_candidates == SortCandidates(candidates)
        best   == sorted_candidates[1]
        rest   == Tail(sorted_candidates)
        alts   == SelectSeq(rest, LAMBDA c : c.value # best.value)
    IN  [value              |-> best.value,
         source_document    |-> best.source_document,
         confidence         |-> best.confidence,
         alternative_values |-> [i \in 1..Len(alts) |-> alts[i].value],
         verified_by        |-> [i \in 1..Len(rest) |-> rest[i].source_document]]

\* rules.py:353-394 (called with a non-empty list only, rules.py:595-626)
select_best_value(candidates) ==
    LET sorted_candidates == SortCandidates(candidates)
        best   == sorted_candidates[1]
        rest   == Tail(sorted_candidates)
        Differs(c) == c.value # best.value
        Agrees(c)  == c.value = best.value
        alts   == SelectSeq(rest, Differs)
        same   == SelectSeq(rest, Agrees)
    IN  [value              |-> best.value,
         source_document    |-> best.source_document,
         confidence         |-> best.confidence,
         alternative_values |-> [i \in 1..Len(alts) |-> alts[i].value],
         verified_by        |-> [i \in 1..Len(same) |-> same[i].source_document]]

\* the golden record's fields in the order rules.py:595-626 sets them
GoldenFieldKeys ==
    << "name", "date_of_birth", "ssn", "address", "employer", "employer_ein",
       "annual_income", "bank_account", "ending_balance",
       "drivers_license_number", "drivers_license_state" >>

\* rules.py:595-626: the entries of the first n fields
RECURSIVE GoldenFields(_, _)
GoldenFields(docs, n) ==
    IF n = 0 THEN <<>>
    ELSE LET key == GoldenFieldKeys[n]
             candidates == CandidatesFor(key, docs)
         IN  GoldenFields(docs, n - 1) \o
             (IF candidates # <<>> THEN << <<key, select_best_value(candidates)>> >>
              ELSE <<>>)

\* rules.py:300-630
generate_golden_record(loan_application_id, docs, created_timestamp) ==
    << <<"loan_application_id", [pystr |-> loan_application_id]>>,
       <<"created_timestamp",   [pystr |-> created_timestamp]>> >>
    \o GoldenFields(docs, Len(GoldenFieldKeys))

(***************************************************************************)
(* validator/app.py: lambda_handler, and risk_scorer/app.py: lambda_handler*)
(*                                                                         *)
(* table is the DynamoDB documents table: table[id] is a DocumentMetadata, *)
(* NoField (no item), or [raises |-> TRUE] (get_document raises).  oracle  *)
(* is the Bedrock model, seed stands for the random source of uuid.uuid4() *)
(* and now for the clock read by datetime.utcnow().                        *)
(***************************************************************************)
\* app.py:61-83: the documents loaded for the first n ids
RECURSIVE LoadDocuments(_, _, _, _)
LoadDocuments(table, loan_application_id, document_ids, n) ==
    IF n = 0 THEN <<>>
    ELSE LET doc_metadata == table[document_ids[n]]
             before == LoadDocuments(table, loan_application_id, document_ids, n - 1)
         IN  IF doc_metadata = NoField THEN before
             ELSE IF doc_metadata.loan_application_id # loan_application_id THEN before
             ELSE IF doc_metadata.processing_status # "COMPLETED" THEN before
             ELSE IF DOMAIN doc_metadata.extracted_data = {} THEN before
             ELSE Append(before, doc_metadata)

\* the first of the (types, key) choices that doc matches, as the if/elif
\* chains of app.py:103-113, 150-158, 370-374 pick extracted_data[key]
RECURSIVE FirstField(_, _)
FirstField(doc, choices) ==
    IF choices = <<>> THEN NoField
    ELSE IF doc.document_type \in Head(choices)[1] /\ Head(choices)[2] \in DOMAIN doc.extracted_data
         THEN doc.extracted_data[Head(choices)[2]]
         ELSE FirstField(doc, Tail(choices))

\* the field data each check of the handler reads from a document
HandlerFieldData(check, doc) ==
    CASE check = "name" ->
            FirstField(doc, << <<{"W2"}, "employee_name">>,
                               <<{"BANK_STATEMENT"}, "account_holder_name">>,
                               <<{"TAX_FORM"}, "taxpayer_name">>,
                               <<{"DRIVERS_LICENSE"}, "full_name">>,
                               <<{"ID_DOCUMENT"}, "full_name">> >>)
      [] check = "address" ->
            FirstField(doc, << <<{"W2"}, "employee_address">>,
                               <<{"BANK_STATEMENT"}, "account_holder_address">>,
                               <<{"TAX_FORM"}, "address">>,
                               <<{"DRIVERS_LICENSE"}, "address">> >>)
      [] check = "wages" -> FirstField(doc, << <<{"W2"}, "wages">> >>)
      [] check = "adjusted_gross_income" ->
            FirstField(doc, << <<{"TAX_FORM"}, "adjusted_gross_income">> >>)
      [] check = "date_of_birth" ->
            FirstField(doc, << <<{"DRIVERS_LICENSE", "ID_DOCUMENT", "TAX_FORM"},
                                 "date_of_birth">> >>)
      [] check = "ssn" ->
            FirstField(doc, << <<{"W2"}, "employee_ssn">>,
                               <<{"TAX_FORM"}, "taxpayer_ssn">> >>)

\* app.py:116-123: the value of a found field, <<>> when there is none
HandlerValue(field_data) ==
    IF ~FieldTruthy(field_data) THEN <<>>
    ELSE IF "raw" \in DOMAIN field_data THEN field_data.raw
    ELSE Get(field_data, "value", <<>>)

\* app.py:96-129 and alike: the candidate list of one check
RECURSIVE HandlerFields(_, _)
HandlerFields(docs, check) ==
    IF docs = <<>> THEN <<>>
    ELSE LET doc   == docs[Len(docs)]
             value == HandlerValue(HandlerFieldData(check, doc))
         IN  HandlerFields(SubSeq(docs, 1, Len(docs) - 1), check) \o
             (IF value # <<>> THEN << [value |-> value, source |-> doc.document_id] >>
              ELSE <<>>)

\* app.py:249-277: the AGI of the first tax form that has one
FirstTaxAgi(docs) ==
    LET found == HandlerFields(docs, "adjusted_gross_income")
    IN  IF found = <<>> THEN NoField ELSE found[1]

\* str(uuid.uuid4()) for the k-th inconsistency of a run
uuid4(seed, k) == <<seed, k>>

\* mutant of ToInconsistencies: the generated id is written into a second field
ToInconsistencies_IdInDescription(incs, seed) ==
    [k \in 1..Len(incs) |->
        incs[k] @@ [inconsistency_id |-> uuid4(seed, k),
                    description_id   |-> uuid4(seed, k),
                    detected_by      |-> "cross_document_validator",
                    document_pages   |-> <<>>]]

\* app.py:186-215 and alike: models.Inconsistency(...).to_dict() for the
\* inconsistencies of the rules, in the order the handler appends them
ToInconsistencies(incs, seed) ==
    [k \in 1..Len(incs) |->
        incs[k] @@ [inconsistency_id |-> uuid4(seed, k),
                    detected_by      |-> "cross_document_validator",
                    document_pages   |-> <<>>]]

\* app.py:431-440
DocumentSummary(docs) ==
    [i \in 1..Len(docs) |-> [document_id    |-> docs[i].document_id,
                             document_type  |-> docs[i].document_type,
                             extracted_data |-> docs[i].extracted_data]]

\* app.py:461-467 with the status and error of the handler for other exceptions
BadRequest_InternalError(message) ==
    [statusCode |-> 500, error |-> "InternalError", message |-> message]

\* app.py:461-467
BadRequest(message) == [statusCode |-> 400, error |-> "ValidationError", message |-> message]

\* app.py:96-129, 144-175, 221-277, 309-330, 365-391: the first half of a
\* check taken alone, the candidates it collects from the loaded documents
CheckFields(check, docs) ==
    IF check = "income"
    THEN [w2_wages |-> HandlerFields(docs, "wages"), tax_agi |-> FirstTaxAgi(docs)]
    ELSE HandlerFields(docs, check)

\* app.py:132-138, 178-184, 280-289, 334-340, 395-401: the second half of a
\* check taken alone, its rule on the candidates when there are enough of them
CheckRule(check, fields, oracle) ==
    CASE check = "name" ->
            IF Len(fields) >= 2 THEN validate_names(fields) ELSE <<>>
      [] check = "address" ->
            IF Len(fields) >= 2 THEN validate_addresses(fields, oracle) ELSE <<>>
      [] check = "income" ->
            IF fields.w2_wages # <<>> /\ fields.tax_agi # NoField
            THEN validate_income(fields.w2_wages, fields.tax_agi) ELSE <<>>
      [] check = "date_of_birth" ->
            IF Len(fields) >= 2 THEN validate_ssn_dob(fields, s_date_of_birth) ELSE <<>>
      [] check = "ssn" ->
            IF Len(fields) >= 2 THEN validate_ssn_dob(fields, s_ssn) ELSE <<>>

\* app.py:92-138
NameCheck(docs) ==
    Only({ IF Len(name_fields) >= 2 THEN validate_names(name_fields) ELSE <<>> :
               name_fields \in {HandlerFields(docs, "name")} })

\* app.py:140-184
AddressCheck(docs, oracle) ==
    Only({ IF Len(address_fields) >= 2 THEN validate_addresses(address_fields, oracle) ELSE <<>> :
               address_fields \in {HandlerFields(docs, "address")} })

\* app.py:217-289
IncomeCheck(docs) ==
    Only({ IF w2_wages # <<>> /\ tax_agi # NoField THEN validate_income(w2_wages, tax_agi)
           ELSE <<>> :
               w2_wages \in {HandlerFields(docs, "wages")}, tax_agi \in {FirstTaxAgi(docs)} })

\* app.py:305-345
DobCheck(docs) ==
    Only({ IF Len(dob_fields) >= 2 THEN validate_ssn_dob(dob_fields, s_date_of_birth) ELSE <<>> :
               dob_fields \in {HandlerFields(docs, "date_of_birth")} })

\* app.py:361-401
SsnCheck(docs) ==
    Only({ IF Len(ssn_fields) >= 2 THEN validate_ssn_dob(ssn_fields, s_ssn) ELSE <<>> :
               ssn_fields \in {HandlerFields(docs, "ssn")} })

\* app.py:92-459, the handler once the documents are loaded; found is the
\* inconsistencies in the order the handler appends them
ValidateLoaded(loan_application_id, docs, oracle, seed, now) ==
    LET Response(found) ==
            [statusCode            |-> 200,
             loan_application_id   |-> loan_application_id,
             documents             |-> DocumentSummary(docs),
             inconsistencies       |-> ToInconsistencies(found, seed),
             golden_record         |-> generate_golden_record(loan_application_id, docs, now),
             validation_status     |-> "VALIDATION_COMPLETE_WITH_GOLDEN_RECORD",
             documents_loaded      |-> Len(docs),
             inconsistencies_found |-> Len(found)]
    IN  Only({ Response(found) :
                   found \in { NameCheck(docs) \o AddressCheck(docs, oracle) \o IncomeCheck(docs)
                                \o DobCheck(docs) \o SsnCheck(docs) } })

\* validator/app.py:26-474
validator_lambda_handler(ev, table, oracle, seed, now) ==
    LET loan_application_id == Get(ev, "loan_application_id", "")
        document_ids        == Get(ev, "document_ids", <<>>)
        Validate(loaded) ==
            IF loaded = <<>> THEN BadRequest("No valid documents available for validation")
            ELSE ValidateLoaded(loan_application_id, loaded, oracle, seed, now)
    IN  IF loan_application_id = "" THEN BadRequest("loan_application_id is required")
        ELSE IF document_ids = <<>> THEN BadRequest("document_ids list cannot be empty")
        ELSE IF \E n \in 1..Len(document_ids) : "raises" \in DOMAIN table[document_ids[n]]
             THEN [statusCode |-> 500, error |-> "InternalError",
                   message |-> "An unexpected error occurred during validation"]
        ELSE Only({ Validate(loaded) :
                        loaded \in { LoadDocuments(table, loan_application_id, document_ids,
                                                   Len(document_ids)) } })

\* risk_scorer/app.py:10-43; raised = the Lambda ends with an exception
risk_scorer_lambda_handler(ev) ==
    LET loan_application_id == Get(ev, "loan_application_id", "")
        incs   == Get(ev, "inconsistencies", <<>>)
        golden == Get(ev, "golden_record", <<>>)
        docs   == Get(ev, "documents", <<>>)
        risk_metrics == calculate_total_risk(incs, golden, docs)
    IN  IF loan_application_id = "" THEN [raised |-> TRUE, error |-> "ValueError"]
        ELSE IF risk_metrics.raised THEN [raised |-> TRUE, error |-> "AttributeError"]
        ELSE [raised              |-> FALSE,
              statusCode          |-> 200,
              loan_application_id |-> loan_application_id,
              documents           |-> docs,
              inconsistencies     |-> incs,
              golden_record       |-> golden,
              risk_assessment     |-> risk_metrics]

(***************************************************************************)
(* Golden record: inputs and operations                                    *)
(***************************************************************************)
MaxDocs == 3   \* longest list of loaded documents of SpecGolden

v_abcd == <<"a","b","c","d">>
v_wxyz == <<"w","x","y","z">>
v_15jun == <<"1","5","-","j","u","n">>
v_16jun == <<"1","6","-","j","u","n">>
v_1234 == <<"1","2","3","4">>
v_9876 == <<"9","8","7","6">>
v_addr1 == <<"1"," ","m",","," ","s",","," ","i","l"," ","6">>
v_addr2 == <<"2"," ","m",","," ","s",","," ","i","l"," ","6">>
v_75000 == <<"7","5","0","0","0">>
v_80000 == <<"$","8","0",",","0","0","0">>
v_acme == <<"a","c","m","e">>

Doc(id, type, data) ==
    [document_id |-> id, loan_application_id |-> "loan-1", document_type |-> type,
     processing_status |-> "COMPLETED", extracted_data |-> data]

\* documents in the shape of tests/test_validator.py:869-1116: confidences on
\* [0,1]; doc-dl and doc-id tie on reliability and confidence for name and
\* date_of_birth with different values, doc-w2 and doc-w2b tie with equal names
DocPool ==
    { Doc("doc-dl", "DRIVERS_LICENSE",
          [full_name      |-> [value |-> v_abcd,  confidence |-> 90],
           date_of_birth  |-> [value |-> v_15jun, confidence |-> 99],
           address        |-> [value |-> v_addr1, confidence |-> 85],
           license_number |-> [value |-> v_1234,  confidence |-> 95],
           state          |-> [raw |-> <<"i","l">>]]),
      Doc("doc-id", "ID_DOCUMENT",
          [full_name      |-> [value |-> v_wxyz,  confidence |-> 90],
           date_of_birth  |-> [value |-> v_16jun, confidence |-> 99]]),
      Doc("doc-w2", "W2",
          [employee_name    |-> [value |-> v_abcd,  confidence |-> 98],
           employee_ssn     |-> [value |-> v_1234,  confidence |-> 99],
           employee_address |-> [value |-> v_addr1, confidence |-> 95],
           employer_name    |-> [value |-> v_acme,  confidence |-> 97],
           employer_ein     |-> [value |-> v_9876,  confidence |-> 98],
           wages            |-> [value |-> v_75000, confidence |-> 99]]),
      Doc("doc-w2b", "W2",
          [employee_name    |-> [value |-> v_abcd,  confidence |-> 98],
           employee_ssn     |-> [value |-> v_9876,  confidence |-> 90],
           wages            |-> [value |-> v_80000]]),
      Doc("doc-tax", "TAX_FORM",
          [taxpayer_name         |-> [value |-> v_wxyz,  confidence |-> 97],
           taxpayer_ssn          |-> [value |-> v_1234,  confidence |-> 99],
           address               |-> [value |-> v_addr2, confidence |-> 70],
           adjusted_gross_income |-> [value |-> v_75000, confidence |-> 98]]),
      Doc("doc-bank", "BANK_STATEMENT",
          [account_holder_name    |-> [value |-> v_wxyz,  confidence |-> 99],
           account_holder_address |-> [value |-> v_addr1, confidence |-> 96],
           account_number         |-> [value |-> v_1234,  confidence |-> 99],
           ending_balance         |-> [value |-> v_75000, confidence |-> 99]]),
      Doc("doc-pp", "PASSPORT",
          [full_name     |-> [value |-> v_wxyz,  confidence |-> 99],
           date_of_birth |-> [value |-> v_15jun, confidence |-> 99]]),
      Doc("doc-id2", "ID_DOCUMENT",
          [full_name     |-> [raw |-> v_abcd],
           date_of_birth |-> [value |-> <<>>, confidence |-> 99]]) }

LoadedIds(docs) == { docs[i].document_id : i \in 1..Len(docs) }

\* validator/app.py:83, 417-426: one more document is loaded and the golden
\* record is generated from the list
BuildWithOneMoreDocument(doc) ==
    /\ Len(loaded_documents) < MaxDocs
    /\ doc.document_id \notin LoadedIds(loaded_documents)
    /\ loaded_documents' = Append(loaded_documents, doc)
    /\ golden_record' = generate_golden_record("loan-1", loaded_documents', "t0")
    /\ UNCHANGED <<inconsistencies, documents, risk_assessment, nameVars, valueVars, pipelineVars, ruleVars, utilityVars>>

\* validator/app.py:61-83, 417-426: the same documents arrive in another order
\* (documents i and i + 1 change places) and the golden record is generated
BuildReordered(i) ==
    /\ i + 1 <= Len(loaded_documents)
    /\ loaded_documents' = [loaded_documents EXCEPT ![i] = loaded_documents[i + 1],
                                                    ![i + 1] = loaded_documents[i]]
    /\ golden_record' = generate_golden_record("loan-1", loaded_documents', "t0")
    /\ UNCHANGED <<inconsistencies, documents, risk_assessment, nameVars, valueVars, pipelineVars, ruleVars, utilityVars>>

NextGolden ==
    \/ \E doc \in DocPool : BuildWithOneMoreDocument(doc)
    \/ \E i \in 1..MaxDocs : BuildReordered(i)

SpecGolden == Init /\ [][NextGolden]_vars

(***************************************************************************)
(* Risk scorer: inputs and operations                                      *)
(*                                                                         *)
(* The risk scorer Lambda (risk_scorer/app.py) is called with an event     *)
(* carrying inconsistencies, golden_record and documents, and answers with *)
(* calculate_total_risk of the three.  Each action below is one call of    *)
(* the scorer on the previous event extended by one element.               *)
(***************************************************************************)
MaxIncs == 3        \* longest inconsistency list of SpecScorer
MaxTableIncs == 2   \* longest inconsistency list of SpecIncTable

s_first_name == <<"f","i","r","s","t","_">> \o s_name
s_SSN        == <<"S","S","N">>
s_phone      == <<"p","h","o","n","e">>

\* inconsistency dicts as the validator emits them (rules.py:45-52, 63-70,
\* 88-95, 288-295) and as tests/test_risk_scorer.py:26-31, 62-67 write them
ScorerIncs ==
    { [field |-> s_name,    severity |-> "HIGH"],
      [field |-> s_address, severity |-> "HIGH"],
      [field |-> s_income,  severity |-> "HIGH"],
      [field |-> s_income,  severity |-> "MEDIUM"],
      [field |-> s_ssn,     severity |-> "CRITICAL"] }

TableIncs ==
    ScorerIncs \cup
    { [field |-> s_first_name],
      [field |-> s_income],
      [field |-> s_SSN,             severity |-> "CRITICAL"],
      [field |-> s_date_of_birth,   severity |-> "CRITICAL"],
      [field |-> s_document_number, severity |-> "CRITICAL"],
      [field |-> s_phone,           severity |-> "LOW"],
      [severity |-> "HIGH"] }

\* golden record entries: confidence 0.50, 0.95 (the scale of the golden record
\* builder, rules.py:351), 50.0, 95.0 (the scale of tests/test_risk_scorer.py:48),
\* and an entry without a confidence
GoldenKeys == {"name", "ssn"}
GoldenData ==
    { [value |-> "v", confidence |-> 50],
      [value |-> "v", confidence |-> 95],
      [value |-> "v", confidence |-> 5000],
      [value |-> "v", confidence |-> 9500],
      [value |-> "v"] }

ScorerDocIds == {"doc-1"}
ScorerDocs ==
    { [document_id |-> id, status |-> "LOW_QUALITY"] : id \in ScorerDocIds } \cup
    { [document_id |-> id, requires_manual_review |-> TRUE] : id \in ScorerDocIds } \cup
    { [document_id |-> id, status |-> "COMPLETED", requires_manual_review |-> FALSE] :
         id \in ScorerDocIds }

KeysOf(items)   == { items[i][1] : i \in 1..Len(items) }

\* risk_scorer/app.py:10-43; the event is the previous one plus inconsistency inc
ScoreOneMoreInconsistency(inc, max) ==
    /\ Len(inconsistencies) < max
    /\ inconsistencies' = Append(inconsistencies, inc)
    /\ risk_assessment' = calculate_total_risk(inconsistencies', golden_record, documents)
    /\ UNCHANGED <<golden_record, documents, nameVars, valueVars, loaded_documents, pipelineVars, ruleVars, utilityVars>>

\* risk_scorer/app.py:10-43; the event is the previous one plus a golden field
ScoreOneMoreGoldenField(key, data) ==
    /\ key \notin KeysOf(golden_record)
    /\ golden_record' = Append(golden_record, <<key, data>>)
    /\ risk_assessment' = calculate_total_risk(inconsistencies, golden_record', documents)
    /\ UNCHANGED <<inconsistencies, documents, nameVars, valueVars, loaded_documents, pipelineVars, ruleVars, utilityVars>>

\* risk_scorer/app.py:10-43; the event is the previous one plus a document
ScoreOneMoreDocument(doc) ==
    /\ doc.document_id \notin { documents[i].document_id : i \in 1..Len(documents) }
    /\ documents' = Append(documents, doc)
    /\ risk_assessment' = calculate_total_risk(inconsistencies, golden_record, documents')
    /\ UNCHANGED <<inconsistencies, golden_record, nameVars, valueVars, loaded_documents, pipelineVars, ruleVars, utilityVars>>


NextScorer ==
    \/ \E inc \in ScorerIncs : ScoreOneMoreInconsistency(inc, MaxIncs)
    \/ \E key \in GoldenKeys, data \in GoldenData : ScoreOneMoreGoldenField(key, data)
    \/ \E doc \in ScorerDocs : ScoreOneMoreDocument(doc)

SpecScorer == Init /\ [][NextScorer]_vars

NextIncTable ==
    \E inc \in TableIncs : ScoreOneMoreInconsistency(inc, MaxTableIncs)

SpecIncTable == Init /\ [][NextIncTable]_vars

\* events whose inconsistencies are of every kind of TableIncs, with golden
\* record fields and documents
NextFactors ==
    \/ \E inc \in TableIncs : ScoreOneMoreInconsistency(inc, MaxTableIncs)
    \/ \E key \in GoldenKeys, data \in GoldenData : ScoreOneMoreGoldenField(key, data)
    \/ \E doc \in ScorerDocs : ScoreOneMoreDocument(doc)

SpecFactors == Init /\ [][NextFactors]_vars

(***************************************************************************)
(* Claims on the risk scorer                                               *)
(***************************************************************************)
RECURSIVE SumPoints(_)
SumPoints(factors) ==
    IF factors = <<>> THEN 0
    ELSE SumPoints(Tail(factors)) + Head(factors).points_added

FactorsOf(assessment, type) ==
    LET Is(f) == f.factor_type = type
    IN  SelectSeq(assessment.risk_factors, Is)

\* C3: extending the scorer's input by one inconsistency, one golden record
\* field or one document never decreases raw_score (every step of SpecScorer
\* is one such extension).
C3_Monotone ==
    [][risk_assessment'.raw_score >= risk_assessment.raw_score]_vars

\* C3 witness: all three kinds of input have been added and have scored.
C3_Witness ==
    /\ Len(inconsistencies) >= 2
    /\ Len(FactorsOf(risk_assessment, "INCONSISTENCY")) >= 1
    /\ Len(FactorsOf(risk_assessment, "LOW_CONFIDENCE")) >= 1
    /\ Len(FactorsOf(risk_assessment, "POOR_DOCUMENT_QUALITY")) >= 1
    /\ risk_assessment.raw_score >= 45

\* C4: the capped score is min(raw_score, 100), raw_score is not negative, and
\* the capped score lies in 0..100.
C4_ScoreBounds ==
    /\ risk_assessment.raw_score >= 0
    /\ risk_assessment.risk_score =
         (IF risk_assessment.raw_score > 100 THEN 100 ELSE risk_assessment.raw_score)
    /\ risk_assessment.risk_score \in 0..100

\* C4 witness: an assessment whose raw score went over the cap.
C4_Witness ==
    /\ risk_assessment.raw_score > 100
    /\ risk_assessment.risk_score = 100

\* the band table of the claim
BandOf(score) ==
    CHOOSE level \in {"LOW", "MEDIUM", "HIGH", "CRITICAL"} :
        \/ level = "LOW"      /\ score \in 0..24
        \/ level = "MEDIUM"   /\ score \in 25..49
        \/ level = "HIGH"     /\ score \in 50..79
        \/ level = "CRITICAL" /\ score \in 80..100

\* C5: the level of every assessment is the band of its capped score, and
\* every score of 0..100 has exactly the level of its band.
C5_RiskBands ==
    /\ risk_assessment.risk_level = BandOf(risk_assessment.risk_score)
    /\ \A score \in 0..100 : determine_risk_level(score) = BandOf(score)

\* C5 witness: assessments on a band's lower edge.
C5_Witness ==
    /\ risk_assessment.risk_score = 50
    /\ risk_assessment.risk_level = "HIGH"
    /\ ~risk_assessment.is_high_risk

\* the category of an inconsistency as the claim names it; first_name is a
\* name inconsistency in tests/test_risk_scorer.py:27
ClaimCategory(inc) ==
    LET f == Get(inc, "field", <<>>)
    IN  CASE f \in {s_name, s_first_name} -> "name"
          [] f = s_address -> "address"
          [] f = s_income -> "income"
          [] f \in {s_ssn, s_SSN, s_date_of_birth, s_document_number} -> "identifier"
          [] OTHER -> "other"

\* the point table of the claim
ClaimPoints(inc) ==
    CASE ClaimCategory(inc) = "name" -> 15
      [] ClaimCategory(inc) = "address" -> 20
      [] ClaimCategory(inc) = "income" ->
            (IF "severity" \in DOMAIN inc /\ inc.severity = "HIGH" THEN 25 ELSE 15)
      [] ClaimCategory(inc) = "identifier" -> 30
      [] OTHER -> 0

RECURSIVE ClaimTotal(_)
ClaimTotal(incs) ==
    IF incs = <<>> THEN 0 ELSE ClaimPoints(Head(incs)) + ClaimTotal(Tail(incs))

\* C7: the inconsistency score is the sum over the list of the points of the
\* claim's table, and each inconsistency with points has its own factor
\* carrying those points.
C7_PointTable ==
    LET got == calculate_inconsistency_score(inconsistencies)
        scored == SelectSeq(inconsistencies, LAMBDA inc : ClaimPoints(inc) > 0)
    IN  /\ got.score = ClaimTotal(inconsistencies)
        /\ risk_assessment.raw_score = ClaimTotal(inconsistencies)
        /\ Len(got.factors) = Len(scored)
        /\ \A i \in 1..Len(scored) : got.factors[i].points_added = ClaimPoints(scored[i])

\* C7 witness: a list holding an income inconsistency that is not HIGH and one
\* of an unrecognized category.
C7_Witness ==
    /\ Len(inconsistencies) = 2
    /\ inconsistencies[1] = [field |-> s_income, severity |-> "MEDIUM"]
    /\ inconsistencies[2] = [field |-> s_phone, severity |-> "LOW"]
    /\ risk_assessment.raw_score = 15

\* the golden record's confidences are on the scale of FieldCandidate, [0,1]
OnUnitScale(golden) ==
    \A i \in 1..Len(golden) :
        /\ "confidence" \in DOMAIN golden[i][2]
        /\ golden[i][2].confidence \in 0..100

\* C8: with confidences on the [0,1] scale, the scorer adds 10 points for each
\* field whose confidence is below 0.80 and nothing for the others.
C8_LowConfidencePoints ==
    OnUnitScale(golden_record) =>
        SumPoints(FactorsOf(risk_assessment, "LOW_CONFIDENCE")) =
            10 * Cardinality({ i \in 1..Len(golden_record) :
                                 golden_record[i][2].confidence < 80 })

(***************************************************************************)
(* Claims on the consistency rules                                         *)
(***************************************************************************)
\* the edit distance by its definition: the fewest single-character
\* insertions, deletions and substitutions turning a into b
RECURSIVE EditDistance(_, _)
EditDistance(a, b) ==
    IF a = <<>> THEN Len(b)
    ELSE IF b = <<>> THEN Len(a)
    ELSE Min3(EditDistance(Tail(a), b) + 1,
              EditDistance(a, Tail(b)) + 1,
              EditDistance(Tail(a), Tail(b)) + (IF Head(a) = Head(b) THEN 0 ELSE 1))

NormalizedDistance(c1, c2) == EditDistance(Strip(Lower(c1.value)), Strip(Lower(c2.value)))

Pairs(n) == { p \in (1..n) \X (1..n) : p[1] < p[2] }

\* the inconsistencies of list out that cite candidates c1 and c2, in this order
Citing(out, c1, c2) ==
    { k \in 1..Len(out) :
        /\ out[k].source_documents = <<c1.source, c2.source>>
        /\ out[k].expected_value = c1.value
        /\ out[k].actual_value = c2.value }

\* C9: validate_names emits exactly one HIGH name inconsistency for each
\* unordered pair of candidates whose lower-cased, trimmed values are more
\* than 2 edits apart, and nothing else.
C9_NamePairs ==
    /\ \A p \in Pairs(Len(names)) :
          Cardinality(Citing(name_inconsistencies, names[p[1]], names[p[2]])) =
             (IF NormalizedDistance(names[p[1]], names[p[2]]) > 2 THEN 1 ELSE 0)
    /\ Len(name_inconsistencies) =
          Cardinality({ p \in Pairs(Len(names)) :
                          NormalizedDistance(names[p[1]], names[p[2]]) > 2 })
    /\ \A k \in 1..Len(name_inconsistencies) :
          /\ name_inconsistencies[k].severity = "HIGH"
          /\ name_inconsistencies[k].field = s_name
          /\ name_inconsistencies[k].distance > 2

\* C9 witness: three names, one pair exactly 2 edits apart (not flagged), one
\* pair equal only after lower-casing and trimming, one pair flagged.
C9_Witness ==
    /\ Len(names) = 3
    /\ Len(name_inconsistencies) = 1
    /\ NormalizedDistance(names[1], names[2]) = 2
    /\ NormalizedDistance(names[1], names[3]) = 3
    /\ \E p \in Pairs(3) : /\ names[p[1]].value # names[p[2]].value
                           /\ NormalizedDistance(names[p[1]], names[p[2]]) <= 2

\* the inconsistencies of validate_ssn_dob that cite later candidate k
ForCandidate(k) ==
    { n \in 1..Len(value_inconsistencies) :
        /\ value_inconsistencies[n].source_documents = <<values[1].source, values[k].source>>
        /\ value_inconsistencies[n].expected_value = values[1].value
        /\ value_inconsistencies[n].actual_value = values[k].value
        /\ value_inconsistencies[n].severity = "CRITICAL"
        /\ value_inconsistencies[n].field = field_name }

\* C10 as stated: one CRITICAL inconsistency for each later candidate whose
\* normalized (lower-cased, trimmed) value differs from the baseline's, none for
\* the others, and none between two later candidates.
C10_NormalizedBaseline ==
    /\ \A k \in 2..Len(values) :
          Cardinality(ForCandidate(k)) =
             (IF Strip(Lower(values[k].value)) # Strip(Lower(values[1].value)) THEN 1 ELSE 0)
    /\ \A n \in 1..Len(value_inconsistencies) : \E k \in 2..Len(values) : n \in ForCandidate(k)

\* C10 amended: one CRITICAL inconsistency for each later candidate whose value
\* as extracted (no lower-casing, no trimming) differs from the baseline's, none
\* for a later candidate equal to the baseline, none between later candidates.
C10_ExactBaseline ==
    /\ \A k \in 2..Len(values) :
          Cardinality(ForCandidate(k)) = (IF values[k].value # values[1].value THEN 1 ELSE 0)
    /\ \A n \in 1..Len(value_inconsistencies) : \E k \in 2..Len(values) : n \in ForCandidate(k)
    /\ Len(value_inconsistencies) =
          Cardinality({ k \in 2..Len(values) : values[k].value # values[1].value })

\* C10 witness: the second candidate equals the baseline, the third differs
\* from both, and the only inconsistency is baseline against third.
C10_Witness ==
    /\ Len(values) = 3
    /\ values[2].value = values[1].value
    /\ values[3].value # values[1].value
    /\ Len(value_inconsistencies) = 1
    /\ value_inconsistencies[1].source_documents = <<"doc-1", "doc-3">>

(***************************************************************************)
(* Claims on the golden record                                             *)
(***************************************************************************)
\* the field entries of a golden record (all but the two leading str entries)
FieldEntries(golden) == SelectSeq(golden, LAMBDA e : ~IsPyStr(e[2]))
EntryOf(golden, key) == CHOOSE e \in { golden[i] : i \in 1..Len(golden) } : e[1] = key
Selection(data) == <<data.value, data.source_document, data.confidence>>

SameDocuments(docs1, docs2) ==
    /\ Len(docs1) = Len(docs2)
    /\ \E perm \in [1..Len(docs1) -> 1..Len(docs1)] :
          /\ \A i, j \in 1..Len(docs1) : i # j => perm[i] # perm[j]
          /\ \A i \in 1..Len(docs1) : docs2[i] = docs1[perm[i]]

\* C1: when the same documents are given in another order, every golden
\* record field keeps its selected value, source document and confidence.
C1_OrderIndependent ==
    [][ SameDocuments(loaded_documents, loaded_documents') =>
          /\ KeysOf(golden_record') = KeysOf(golden_record)
          /\ \A key \in KeysOf(FieldEntries(golden_record)) :
                Selection(EntryOf(golden_record', key)[2]) =
                Selection(EntryOf(golden_record, key)[2]) ]_vars

\* C6: the selected candidate of every field has the best reliability among
\* the field's candidates and the highest confidence among those of that
\* reliability.
C6_ReliabilityThenConfidence ==
    \A n \in 1..Len(FieldEntries(golden_record)) :
        LET key == FieldEntries(golden_record)[n][1]
            sel == FieldEntries(golden_record)[n][2]
            cs  == CandidatesFor(key, loaded_documents)
        IN  \E i \in 1..Len(cs) :
               /\ <<cs[i].value, cs[i].source_document, cs[i].confidence>> = Selection(sel)
               /\ \A j \in 1..Len(cs) :
                     /\ cs[j].reliability <= cs[i].reliability
                     /\ cs[j].reliability = cs[i].reliability =>
                           cs[j].confidence <= cs[i].confidence

\* C6 witness: the name comes from the driver's licence (confidence 0.90)
\* although the bank statement (0.99) and the W2 (0.98) are more confident.
C6_Witness ==
    /\ LoadedIds(loaded_documents) = {"doc-bank", "doc-w2", "doc-dl"}
    /\ "name" \in KeysOf(golden_record)
    /\ EntryOf(golden_record, "name")[2].source_document = "doc-dl"
    /\ EntryOf(golden_record, "name")[2].confidence = 90

(***************************************************************************)
(* Pipeline: inputs and operations.  One run is the validator Lambda on an *)
(* event followed by the risk scorer Lambda on the validator's response.   *)
(***************************************************************************)
MaxIds == 2   \* longest document_ids list of an event

\* stored items that the handler does not load
OtherDocs ==
    { [Doc("doc-other", "W2", [employee_name |-> [value |-> v_wxyz, confidence |-> 98]])
          EXCEPT !.loan_application_id = "loan-2"],
      [Doc("doc-pending", "W2", [employee_name |-> [value |-> v_wxyz, confidence |-> 98]])
          EXCEPT !.processing_status = "PROCESSING"],
      Doc("doc-empty", "TAX_FORM", <<>>) }

\* the DynamoDB table: doc-missing has no item, reading doc-err raises
DocumentsTable ==
    [id \in { d.document_id : d \in DocPool \cup OtherDocs } \cup {"doc-missing", "doc-err"} |->
        IF id = "doc-missing" THEN NoField
        ELSE IF id = "doc-err" THEN [raises |-> TRUE]
        ELSE CHOOSE d \in DocPool \cup OtherDocs : d.document_id = id]

\* the ids that events ask for
EventIds == {"doc-dl", "doc-id", "doc-w2b", "doc-tax", "doc-pending", "doc-missing", "doc-err"}

\* every list of up to MaxIds ids, the longest lists with the first id asked
\* for twice, and the items that app.py:70-82 skips for their loan application
\* or their missing extracted data, asked for alone or before a loadable one
IdLists ==
    UNION { [1..n -> EventIds] : n \in 0..MaxIds } \cup
    { <<ids[1]>> \o ids : ids \in [1..MaxIds -> EventIds] } \cup
    { <<id>> : id \in {"doc-other", "doc-empty"} } \cup
    { <<id, "doc-dl">> : id \in {"doc-other", "doc-empty"} }

EventPool ==
    { [loan_application_id |-> "loan-1", document_ids |-> ids] : ids \in IdLists } \cup
    { [document_ids |-> <<"doc-dl">>], [loan_application_id |-> "loan-1"] }

Seeds == {"r1", "r2"}        \* states of the random source of uuid4
Timestamps == {"t1", "t2"}   \* readings of the clock

\* validator/app.py:26-474 then risk_scorer/app.py:10-43, first run on an event
RunPipeline(ev, oracle, seed, now) ==
    /\ event = NoField
    /\ event' = ev
    /\ bedrock' = oracle
    /\ \E r \in {validator_lambda_handler(ev, DocumentsTable, oracle, seed, now)} :
          /\ response' = r
          /\ risk_response' = risk_scorer_lambda_handler(r)
    /\ UNCHANGED <<previous_response, previous_risk_response>>
    /\ UNCHANGED <<scorerVars, nameVars, valueVars, ruleVars, utilityVars, loaded_documents>>

\* the same two Lambdas run once more on the same event, table and oracle
RunPipelineAgain(seed, now) ==
    /\ event # NoField
    /\ previous_response' = response
    /\ previous_risk_response' = risk_response
    /\ \E r \in {validator_lambda_handler(event, DocumentsTable, bedrock, seed, now)} :
          /\ response' = r
          /\ risk_response' = risk_scorer_lambda_handler(r)
    /\ UNCHANGED <<event, bedrock>>
    /\ UNCHANGED <<scorerVars, nameVars, valueVars, ruleVars, utilityVars, loaded_documents>>

NextPipeline ==
    \/ \E ev \in EventPool, oracle \in BedrockPool, seed \in Seeds, now \in Timestamps :
          RunPipeline(ev, oracle, seed, now)
    \/ \E seed \in Seeds, now \in Timestamps : RunPipelineAgain(seed, now)

SpecPipeline == Init /\ [][NextPipeline]_vars

(***************************************************************************)
(* validator/golden_record.py: generate_golden_record(aggregated_data).    *)
(* aggregated_data is a list of <<field, values_list>> in dict order; a    *)
(* value has value, source, confidence and document_type.                  *)
(***************************************************************************)
\* golden_record.py:15-20: the document types of a category, most trusted first
hierarchy(field_category) ==
    CASE field_category = "name" ->
            <<"ID_DOCUMENT", "DRIVERS_LICENSE", "W2", "TAX_FORM", "BANK_STATEMENT">>
      [] field_category = "ssn" -> <<"W2", "TAX_FORM", "BANK_STATEMENT">>
      [] field_category = "address" ->
            <<"DRIVERS_LICENSE", "ID_DOCUMENT", "BANK_STATEMENT", "W2", "TAX_FORM">>
      [] field_category = "dob" -> <<"DRIVERS_LICENSE", "ID_DOCUMENT">>
      [] OTHER -> <<>>

\* golden_record.py:30: the first key of hierarchy that the lower-cased field
\* name contains
field_category_of(field) ==
    LET Contains(key) ==
            \E at \in 0..(Len(field) - Len(key)) :
                SubSeq(Lower(field), at + 1, at + Len(key)) = key
    IN  IF Contains(s_name) THEN "name"
        ELSE IF Contains(s_ssn) THEN "ssn"
        ELSE IF Contains(s_address) THEN "address"
        ELSE IF Contains(<<"d","o","b">>) THEN "dob"
        ELSE "default"

\* golden_record.py:36-43: (priority, -confidence)
sort_key(val, current_hierarchy) ==
    LET doc_type == Get(val, "document_type", "UNKNOWN")
        listed   == { k \in 1..Len(current_hierarchy) : current_hierarchy[k] = doc_type }
    IN  << IF listed # {} THEN (CHOOSE k \in listed : \A l \in listed : k <= l) - 1 ELSE 99,
           0 - Get(val, "confidence", 0) >>

\* golden_record.py:45: sorted(values_list, key=sort_key) is stable, a value
\* goes behind every value whose key is <= its own
RECURSIVE SortValues(_, _)
SortValues(values_list, current_hierarchy) ==
    IF values_list = <<>> THEN <<>>
    ELSE LET val      == values_list[Len(values_list)]
             before   == SortValues(SubSeq(values_list, 1, Len(values_list) - 1), current_hierarchy)
             KeyLe(a, b) == a[1] < b[1] \/ (a[1] = b[1] /\ a[2] <= b[2])
             ahead    == { k \in 1..Len(before) :
                             KeyLe(sort_key(before[k], current_hierarchy),
                                   sort_key(val, current_hierarchy)) }
             n        == IF ahead = {} THEN 0 ELSE CHOOSE k \in ahead : \A l \in ahead : l <= k
         IN  SubSeq(before, 1, n) \o <<val>> \o SubSeq(before, n + 1, Len(before))

\* golden_record.py:8-57
RECURSIVE golden_record_generate_golden_record(_)
golden_record_generate_golden_record(data) ==
    IF data = <<>> THEN <<>>
    ELSE LET field       == data[Len(data)][1]
             values_list == data[Len(data)][2]
             sorted_values == SortValues(values_list, hierarchy(field_category_of(field)))
             best_match  == sorted_values[1]
             others      == SelectSeq(Tail(sorted_values),
                                      LAMBDA v : v.value # best_match.value)
         IN  golden_record_generate_golden_record(SubSeq(data, 1, Len(data) - 1)) \o
             (IF values_list = <<>> THEN <<>>
              ELSE << <<field, [value              |-> best_match.value,
                                source_document    |-> best_match.source,
                                confidence         |-> best_match.confidence,
                                alternative_values |->
                                    [i \in 1..Len(others) |-> others[i].value]]>> >>)

\* the candidates of the loaded documents for the name and the SSN, in the
\* shape golden_record.py reads them
AggregatedData(docs) ==
    LET Values(key) ==
            [i \in 1..Len(CandidatesFor(key, docs)) |->
                [value         |-> CandidatesFor(key, docs)[i].value,
                 source        |-> CandidatesFor(key, docs)[i].source_document,
                 confidence    |-> CandidatesFor(key, docs)[i].confidence,
                 document_type |-> CandidatesFor(key, docs)[i].doc_type]]
    IN  << <<s_name, Values("name")>>, <<s_ssn, Values("ssn")>> >>

\* golden_record.py:8-57 on the candidates of the loaded documents
BuildFromAggregated ==
    /\ loaded_documents # <<>>
    /\ aggregated_data' = AggregatedData(loaded_documents)
    /\ aggregated_record' = golden_record_generate_golden_record(aggregated_data')
    /\ UNCHANGED <<scorerVars, nameVars, valueVars, ruleVars, loaded_documents, pipelineVars>>
    /\ UNCHANGED <<distanceVars, checkVars, alertVars, retryVars>>

\* the two builders of the repository on the same loaded documents
NextBuilders ==
    \/ \E doc \in DocPool : BuildWithOneMoreDocument(doc)
    \/ \E i \in 1..MaxDocs : BuildReordered(i)
    \/ BuildFromAggregated

SpecBuilders == Init /\ [][NextBuilders]_vars

(***************************************************************************)
(* reporter/app.py: trigger_alerts                                         *)
(***************************************************************************)
\* a variant that raises the CRITICAL alert from 80 on
AlertType_CriticalFrom80(risk_score) ==
    IF risk_score >= 80 THEN "CRITICAL" ELSE IF risk_score > 50 THEN "HIGH" ELSE "NONE"

\* reporter/app.py:61-69: the alert type of a risk score, "NONE" for the
\* branch that returns without an alert
AlertType(risk_score) ==
    IF risk_score > 80 THEN "CRITICAL" ELSE IF risk_score > 50 THEN "HIGH" ELSE "NONE"

\* reporter/app.py:51-91; topic is ALERTS_TOPIC_ARN, sns is what sns.publish
\* does (a response with a MessageId, or ClientError), now is the clock.
\* The result holds the messages given to sns.publish and the returned list.
trigger_alerts(record_data, topic, sns, now) ==
    IF topic = <<>>
    THEN [published |-> <<>>, alerts_triggered |-> <<>>]
    ELSE LET risk_score == IF "risk_score" \in DOMAIN record_data
                           THEN record_data.risk_score ELSE 0
             alert_type == AlertType(risk_score)
         IN  IF alert_type = "NONE"
             THEN [published |-> <<>>, alerts_triggered |-> <<>>]
             ELSE [published |-> << [TopicArn |-> topic, RiskLevel |-> alert_type] >>,
                   alerts_triggered |->
                       IF "MessageId" \in DOMAIN sns
                       THEN << [type       |-> alert_type,
                                timestamp  |-> now,
                                message_id |-> sns.MessageId] >>
                       ELSE <<>>]

MaxRiskScore == 100   \* the cap of the risk score

\* the records given to trigger_alerts: every capped score, and no score
AlertRecords ==
    { [loan_application_id |-> "loan-1", risk_score |-> n] : n \in 0..MaxRiskScore }
        \cup { [loan_application_id |-> "loan-1"] }

\* ALERTS_TOPIC_ARN: not configured (reporter/app.py:22), or a topic
TopicArns == { <<>>, <<"a","r","n">> }

\* sns.publish: a response, or ClientError
SnsPool == { [MessageId |-> "m-1"], [raises |-> "ClientError"] }

\* reporter/app.py:127-128: the handler calls trigger_alerts on the record
TriggerAlerts(record_data, topic, sns, now) ==
    /\ alert_call' = [record_data |-> record_data, topic |-> topic, sns |-> sns]
    /\ sns_published' = trigger_alerts(record_data, topic, sns, now).published
    /\ alerts_triggered' = trigger_alerts(record_data, topic, sns, now).alerts_triggered
    /\ UNCHANGED <<scorerVars, nameVars, valueVars, ruleVars, loaded_documents, pipelineVars>>
    /\ UNCHANGED <<distanceVars, checkVars, aggregatedVars, retryVars>>

NextAlerts ==
    \E record_data \in AlertRecords, topic \in TopicArns, sns \in SnsPool, now \in Timestamps :
        TriggerAlerts(record_data, topic, sns, now)

SpecAlerts == Init /\ [][NextAlerts]_vars

(***************************************************************************)
(* classifier/app.py and extractor/app.py: analyze_document_with_retry.    *)
(* One step is one pass of the loop: the analyze_document call and what    *)
(* the function does with its outcome.  An error is [code |-> c] for a     *)
(* ClientError and [exception |-> name] for any other exception.           *)
(***************************************************************************)
max_retries == 3   \* the default the two Lambdas call the function with

\* the function is in its loop; it has returned the response of Textract
Running  == [running |-> TRUE]
Returned == [returns |-> "response"]

\* classifier/app.py:33, extractor/app.py:43
retry_delays == <<5, 15, 45>>

\* a variant that retries after every ClientError
AfterFailure_RetriesAll(error, attempt) ==
    IF "code" \in DOMAIN error
    THEN IF attempt < max_retries - 1
         THEN [sleep |-> retry_delays[attempt + 1]] ELSE [raises |-> error]
    ELSE [raises |-> error]

\* classifier/app.py:48-84, extractor/app.py:58-83: what the except clauses
\* do with the error of pass attempt (counted from 0), sleep or re-raise
AfterFailure(error, attempt) ==
    IF "code" \in DOMAIN error
    THEN IF error.code \in {"ProvisionedThroughputExceededException", "ThrottlingException",
                            "ServiceUnavailable"}
         THEN IF attempt < max_retries - 1
              THEN [sleep |-> retry_delays[attempt + 1]]
              ELSE [raises |-> error]
         ELSE [raises |-> error]
    ELSE [raises |-> error]

\* classifier/app.py:41, extractor/app.py:49: the FeatureTypes of the request
FeatureTypes(lambda) ==
    IF lambda = "classifier" THEN <<"FORMS">> ELSE <<"FORMS", "TABLES">>

\* what analyze_document may raise: the three throttling-class codes, two
\* other ClientError codes, and an exception that is not a ClientError
TextractErrors ==
    { [code |-> c] : c \in {"ProvisionedThroughputExceededException", "ThrottlingException",
                            "ServiceUnavailable", "InvalidS3ObjectException",
                            "AccessDeniedException"} }
        \cup { [exception |-> "EndpointConnectionError"] }

\* classifier/app.py:15, extractor/app.py:27: a Lambda calls the function
CallAnalyze(lambda) ==
    /\ analyze_outcome # Running
    /\ analyze_call' = lambda
    /\ textract_requests' = <<>> /\ textract_failures' = <<>> /\ sleeps' = <<>>
    /\ analyze_outcome' = Running
    /\ UNCHANGED <<scorerVars, nameVars, valueVars, ruleVars, loaded_documents, pipelineVars>>
    /\ UNCHANGED <<distanceVars, checkVars, alertVars, aggregatedVars>>

\* classifier/app.py:35-46, extractor/app.py:45-55: a pass whose call succeeds
AttemptSucceeds ==
    /\ analyze_outcome = Running
    /\ Len(textract_requests) < max_retries
    /\ textract_requests' = Append(textract_requests, FeatureTypes(analyze_call))
    /\ analyze_outcome' = Returned
    /\ UNCHANGED <<analyze_call, textract_failures, sleeps>>
    /\ UNCHANGED <<scorerVars, nameVars, valueVars, ruleVars, loaded_documents, pipelineVars>>
    /\ UNCHANGED <<distanceVars, checkVars, alertVars, aggregatedVars>>

\* classifier/app.py:35-84, extractor/app.py:45-83: a pass whose call fails
AttemptFails(error) ==
    /\ analyze_outcome = Running
    /\ Len(textract_requests) < max_retries
    /\ textract_requests' = Append(textract_requests, FeatureTypes(analyze_call))
    /\ textract_failures' = Append(textract_failures, error)
    /\ \E todo \in {AfterFailure(error, Len(textract_requests))} :
          IF "sleep" \in DOMAIN todo
          THEN sleeps' = Append(sleeps, todo.sleep) /\ analyze_outcome' = Running
          ELSE sleeps' = sleeps /\ analyze_outcome' = todo
    /\ UNCHANGED analyze_call
    /\ UNCHANGED <<scorerVars, nameVars, valueVars, ruleVars, loaded_documents, pipelineVars>>
    /\ UNCHANGED <<distanceVars, checkVars, alertVars, aggregatedVars>>

NextRetry ==
    \/ \E lambda \in {"classifier", "extractor"} : CallAnalyze(lambda)
    \/ AttemptSucceeds
    \/ \E error \in TextractErrors : AttemptFails(error)

SpecRetry == Init /\ [][NextRetry]_vars

(***************************************************************************)
(* The checks of one validator invocation run one by one in any order,     *)
(* each in two steps (collect the candidates, apply the rule), and their   *)
(* results are merged as they finish.                                      *)
(***************************************************************************)
\* the documents of the invocations: four loadable documents, starting from
\* each of them in turn
CheckedLists ==
    { [i \in 1..4 |->
         DocumentsTable[<<"doc-dl", "doc-w2b", "doc-id", "doc-tax">>[((i + k) % 4) + 1]]] :
        k \in 0..3 }

\* app.py:60-90: the documents of the invocation are loaded
LoadForChecks(docs, oracle) ==
    /\ bedrock = NoField
    /\ loaded_documents' = docs
    /\ bedrock' = oracle
    /\ UNCHANGED <<event, response, risk_response, previous_response, previous_risk_response>>
    /\ UNCHANGED <<scorerVars, nameVars, valueVars, ruleVars, distanceVars, checkVars, alertVars, aggregatedVars, retryVars>>

\* app.py:96-129 and alike: a check collects its candidates
CollectFields(check) ==
    /\ bedrock # NoField
    /\ check_phase[check] = "idle"
    /\ check_fields' = [check_fields EXCEPT ![check] = CheckFields(check, loaded_documents)]
    /\ check_phase' = [check_phase EXCEPT ![check] = "collected"]
    /\ UNCHANGED <<merged, distanceVars, alertVars, aggregatedVars, retryVars>>
    /\ UNCHANGED <<scorerVars, nameVars, valueVars, ruleVars, loaded_documents, pipelineVars>>

\* mutant of ApplyRule: the results of the checks that finished before are dropped
ApplyRule_Overwrites(check) ==
    /\ check_phase[check] = "collected"
    /\ merged' = CheckRule(check, check_fields[check], bedrock)
    /\ check_phase' = [check_phase EXCEPT ![check] = "done"]
    /\ UNCHANGED <<check_fields, distanceVars, alertVars, aggregatedVars, retryVars>>
    /\ UNCHANGED <<scorerVars, nameVars, valueVars, ruleVars, loaded_documents, pipelineVars>>

\* app.py:132-138 and 186-215 and alike: a check applies its rule to its
\* candidates and its results join those of the checks that finished before
ApplyRule(check) ==
    /\ check_phase[check] = "collected"
    /\ merged' = merged \o CheckRule(check, check_fields[check], bedrock)
    /\ check_phase' = [check_phase EXCEPT ![check] = "done"]
    /\ UNCHANGED <<check_fields, distanceVars, alertVars, aggregatedVars, retryVars>>
    /\ UNCHANGED <<scorerVars, nameVars, valueVars, ruleVars, loaded_documents, pipelineVars>>

NextChecks ==
    \/ \E docs \in CheckedLists, oracle \in BedrockPool : LoadForChecks(docs, oracle)
    \/ \E check \in DOMAIN check_phase : CollectFields(check)
    \/ \E check \in DOMAIN check_phase : ApplyRule(check)

SpecChecks == Init /\ [][NextChecks]_vars

(***************************************************************************)
(* Claims on the pipeline                                                  *)
(***************************************************************************)
RanTwice == previous_response # NoField

WithoutId(inc) == [k \in DOMAIN inc \ {"inconsistency_id"} |-> inc[k]]
WithoutIds(incs) == [i \in 1..Len(incs) |-> WithoutId(incs[i])]
WithoutTimestamp(golden) == SelectSeq(golden, LAMBDA e : e[1] # "created_timestamp")

RECURSIVE DecimalValue(_)
DecimalValue(s) ==
    IF s = <<>> THEN 0
    ELSE 10 * DecimalValue(SubSeq(s, 1, Len(s) - 1)) + DigitValue(s[Len(s)])

\* the decimal number a text writes, in exact hundredths; NoField when the
\* text writes no number
ExactHundredths(value) ==
    LET t        == RemoveChar(RemoveChar(RemoveChar(value, ","), "$"), " ")
        points   == { i \in 1..Len(t) : t[i] = "." }
        whole    == IF points = {} THEN t ELSE SubSeq(t, 1, (CHOOSE i \in points : TRUE) - 1)
        fraction == IF points = {} THEN <<>>
                    ELSE SubSeq(t, (CHOOSE i \in points : TRUE) + 1, Len(t))
    IN  IF /\ Cardinality(points) <= 1
           /\ Len(whole) >= 1
           /\ Len(fraction) \in {0, 2}
           /\ \A i \in 1..Len(whole) : IsDigit(whole[i])
           /\ \A i \in 1..Len(fraction) : IsDigit(fraction[i])
        THEN [hundredths |-> 100 * DecimalValue(whole) + DecimalValue(fraction)]
        ELSE NoField

Parsable(candidates) ==
    SelectSeq(candidates, LAMBDA w : ExactHundredths(w.value) # NoField)

RECURSIVE ExactTotal(_)
ExactTotal(candidates) ==
    IF candidates = <<>> THEN 0
    ELSE ExactHundredths(Head(candidates).value).hundredths + ExactTotal(Tail(candidates))

\* the severity the thresholds give total against reference (exact
\* hundredths): pct = |total - reference| / max(total, 1) * 100
ExactSeverity(total, reference) ==
    LET difference == IF total >= reference THEN total - reference ELSE reference - total
        base       == IF total >= 100 THEN total ELSE 100
    IN  IF difference * 100 <= 5 * base THEN "NONE"
        ELSE IF difference * 100 <= 10 * base THEN "MEDIUM"
        ELSE "HIGH"

SeverityOf(out) == IF out = <<>> THEN "NONE" ELSE out[1].severity

IncomeCompared ==
    /\ wage_candidates # <<>>
    /\ agi_candidate # NoField
    /\ ExactHundredths(agi_candidate.value) # NoField

\* C11: when every wage candidate and the reference are numbers, validate_income
\* returns nothing if pct <= 5, one MEDIUM income inconsistency if
\* 5 < pct <= 10, one HIGH income inconsistency if pct > 10, with
\* pct = |total - reference| / max(total, 1) * 100 and total the sum of the wages
C11_IncomeThresholds ==
    (IncomeCompared /\ Parsable(wage_candidates) = wage_candidates) =>
        /\ Len(income_inconsistencies) <= 1
        /\ \A i \in 1..Len(income_inconsistencies) : income_inconsistencies[i].field = s_income
        /\ SeverityOf(income_inconsistencies) =
               ExactSeverity(ExactTotal(wage_candidates),
                             ExactHundredths(agi_candidate.value).hundredths)

\* C12: a wage candidate that is no number is left out and the other wage
\* candidates are still summed and compared with the reference
C12_UnparsableWageSkipped ==
    (/\ IncomeCompared
     /\ Parsable(wage_candidates) # <<>>
     /\ Parsable(wage_candidates) # wage_candidates) =>
        SeverityOf(income_inconsistencies) =
            ExactSeverity(ExactTotal(Parsable(wage_candidates)),
                          ExactHundredths(agi_candidate.value).hundredths)

(***************************************************************************)
(* Claims about validate_addresses                                         *)
(***************************************************************************)
AddressComponents == <<"street", "city", "state", "ZIP">>

ComponentOf(address, name) ==
    LET components == parse_address_components(address)
    IN  CASE name = "street" -> components.street
          [] name = "city"   -> components.city
          [] name = "state"  -> components.state
          [] name = "ZIP"    -> components.zip

\* two component values are the same text up to case and surrounding blanks
LiterallyEqual(c1, c2) ==
    IF c1 = NoField \/ c2 = NoField THEN c1 = c2
    ELSE Strip(Lower(c1.str)) = Strip(Lower(c2.str))

\* the entries of the result that cite candidates i and j, in this order
EntriesOf(i, j) ==
    SelectSeq(address_inconsistencies,
              LAMBDA inc : inc.source_documents =
                               <<address_candidates[i].source, address_candidates[j].source>>)

Named(entry) ==
    { entry.mismatched_components[k].component : k \in 1..Len(entry.mismatched_components) }

OracleFails(name) ==
    /\ name \in ComponentTypes
    /\ "raises" \in DOMAIN address_oracle[name]

\* C13: when the oracle call fails, the components are compared by literal
\* equality of the lower-cased, trimmed strings, and validate_addresses still
\* returns its result for every pair of candidates
C13_OracleFailureFallsBack ==
    \A i \in 1..Len(address_candidates), j \in 1..Len(address_candidates) :
        i < j =>
            /\ Len(EntriesOf(i, j)) <= 1
            /\ \A k \in 1..Len(AddressComponents) :
                   OracleFails(AddressComponents[k]) =>
                       ((\E n \in 1..Len(EntriesOf(i, j)) :
                             AddressComponents[k] \in Named(EntriesOf(i, j)[n]))
                        <=> ~LiterallyEqual(
                                ComponentOf(address_candidates[i].value, AddressComponents[k]),
                                ComponentOf(address_candidates[j].value, AddressComponents[k])))

\* three candidates compared one pair after the other while every oracle
\* call fails: some pair is flagged and some pair is not
C13_Witness ==
    /\ Len(address_candidates) = 3
    /\ \A t \in ComponentTypes : OracleFails(t)
    /\ \E k \in 1..Len(address_inconsistencies) :
           \E n \in 1..Len(address_inconsistencies[k].mismatched_components) :
               address_inconsistencies[k].mismatched_components[n].component = "street"
    /\ Len(EntriesOf(1, 2)) = 0
    /\ Len(EntriesOf(2, 3)) = 1

\* a component of the pair mismatches: present in one address and absent in
\* the other, or two texts that differ after normalisation and that the
\* oracle does not declare equivalent (the ZIP is never put to the oracle,
\* nor is an empty text)
ClaimMismatch(c1, c2, name) ==
    IF c1 = NoField \/ c2 = NoField THEN c1 # c2
    ELSE IF Strip(Lower(c1.str)) = Strip(Lower(c2.str)) THEN FALSE
    ELSE IF name = "ZIP" \/ c1.str = <<>> \/ c2.str = <<>> THEN TRUE
    ELSE IF "raises" \in DOMAIN address_oracle[name] THEN TRUE
    ELSE Upper(Strip(address_oracle[name].text)) # s_YES

MismatchedOf(i, j) ==
    { AddressComponents[k] : k \in
        { k \in 1..Len(AddressComponents) :
            ClaimMismatch(ComponentOf(address_candidates[i].value, AddressComponents[k]),
                          ComponentOf(address_candidates[j].value, AddressComponents[k]),
                          AddressComponents[k]) } }

\* C14: every unordered pair of address candidates has exactly one HIGH
\* inconsistency when street, city, state or ZIP mismatches and none when all
\* four match; the inconsistency names exactly the mismatched components
C14_OnePerMismatchedPair ==
    /\ \A i \in 1..Len(address_candidates), j \in 1..Len(address_candidates) :
           i < j =>
               /\ Len(EntriesOf(i, j)) = (IF MismatchedOf(i, j) = {} THEN 0 ELSE 1)
               /\ \A n \in 1..Len(EntriesOf(i, j)) :
                      /\ EntriesOf(i, j)[n].severity = "HIGH"
                      /\ EntriesOf(i, j)[n].field = s_address
                      /\ Named(EntriesOf(i, j)[n]) = MismatchedOf(i, j)
                      /\ Len(EntriesOf(i, j)[n].mismatched_components) =
                             Cardinality(MismatchedOf(i, j))
    /\ \A k \in 1..Len(address_inconsistencies) :
           \E i \in 1..Len(address_candidates), j \in 1..Len(address_candidates) :
               /\ i < j
               /\ address_inconsistencies[k].source_documents =
                      <<address_candidates[i].source, address_candidates[j].source>>

\* three candidates: a pair that matches in all four components, a pair with
\* one component present and absent, and two mismatched components named
C14_Witness ==
    /\ Len(address_candidates) = 3
    /\ Len(address_inconsistencies) = 2
    /\ MismatchedOf(1, 2) = {}
    /\ MismatchedOf(1, 3) = {"state", "ZIP"}
    /\ Named(EntriesOf(1, 3)[1]) = {"state", "ZIP"}

(***************************************************************************)
(* Claims about the validator handler's response                           *)
(***************************************************************************)
Succeeded == response # NoField /\ response.statusCode = 200

Sources(inc) == { inc.source_documents[k] : k \in 1..Len(inc.source_documents) }

Repeats(ids) == \E m \in 1..Len(ids), n \in 1..Len(ids) : m # n /\ ids[m] = ids[n]

\* C15: every inconsistency of a handler response cites at least two distinct
\* source documents, whatever the list of document ids and the rule
C15_TwoDistinctSources ==
    Succeeded =>
        \A k \in 1..Len(response.inconsistencies) :
            Cardinality(Sources(response.inconsistencies[k])) >= 2

\* a document id asked for twice, loaded twice, and an income inconsistency
\* that cites it twice next to the tax form
C15_Witness ==
    /\ Succeeded
    /\ Repeats(event.document_ids)
    /\ Repeats([k \in 1..Len(response.documents) |-> response.documents[k].document_id])
    /\ \E k \in 1..Len(response.inconsistencies) :
           /\ response.inconsistencies[k].field = s_income
           /\ Len(response.inconsistencies[k].source_documents) = 3
    /\ \E k \in 1..Len(response.inconsistencies) : response.inconsistencies[k].field = s_name
    /\ \E k \in 1..Len(response.inconsistencies) : response.inconsistencies[k].field = s_ssn

(***************************************************************************)
(* Claims about alternative_values and verified_by                         *)
(***************************************************************************)
Elements(seq) == { seq[i] : i \in 1..Len(seq) }

Count(seq, x) == Cardinality({ i \in 1..Len(seq) : seq[i] = x })

GoldenKeyAt(n) == FieldEntries(golden_record)[n][1]
GoldenDataAt(n) == FieldEntries(golden_record)[n][2]
GoldenCandidatesAt(n) == CandidatesFor(GoldenKeyAt(n), loaded_documents)

\* C16: no golden record field lists its selected value among its
\* alternative_values
C16_AlternativesExcludeSelected ==
    \A n \in 1..Len(FieldEntries(golden_record)) :
        GoldenDataAt(n).value \notin Elements(GoldenDataAt(n).alternative_values)

\* a field with three candidates: the selected one, one of the same value and
\* one of another value, which alone is listed
C16_Witness ==
    \E n \in 1..Len(FieldEntries(golden_record)) :
        /\ Len(GoldenCandidatesAt(n)) = 3
        /\ Len(GoldenDataAt(n).alternative_values) = 1
        /\ Count([i \in 1..3 |-> GoldenCandidatesAt(n)[i].value], GoldenDataAt(n).value) = 2

\* C17: alternative_values holds each distinct value other than the selected
\* one exactly once
C17_AlternativesDeduplicated ==
    \A n \in 1..Len(FieldEntries(golden_record)) :
        /\ Elements(GoldenDataAt(n).alternative_values) =
               { GoldenCandidatesAt(n)[i].value : i \in 1..Len(GoldenCandidatesAt(n)) }
               \ {GoldenDataAt(n).value}
        /\ \A v \in Elements(GoldenDataAt(n).alternative_values) :
               Count(GoldenDataAt(n).alternative_values, v) = 1

\* C18: verified_by lists the documents of the other candidates whose value
\* is the selected one, each as often as it has such a candidate, and no
\* document for a candidate of another value; those values are alternatives
C18_VerifiedByAgreeing ==
    \A n \in 1..Len(FieldEntries(golden_record)) :
        LET data  == GoldenDataAt(n)
            cands == GoldenCandidatesAt(n)
            Agreeing(d) == { i \in 1..Len(cands) :
                                cands[i].source_document = d /\ cands[i].value = data.value }
        IN  /\ \A d \in Elements(data.verified_by) \cup LoadedIds(loaded_documents) :
                   Count(data.verified_by, d) =
                       Cardinality(Agreeing(d)) - (IF d = data.source_document THEN 1 ELSE 0)
            /\ \A i \in 1..Len(cands) :
                   cands[i].value # data.value =>
                       cands[i].value \in Elements(data.alternative_values)

\* a field verified by one document while the third candidate has another
\* value and is listed as an alternative
C18_Witness ==
    \E n \in 1..Len(FieldEntries(golden_record)) :
        /\ Len(GoldenDataAt(n).verified_by) = 1
        /\ GoldenDataAt(n).verified_by[1] # GoldenDataAt(n).source_document
        /\ Len(GoldenDataAt(n).alternative_values) = 1
        /\ \E i \in 1..Len(GoldenCandidatesAt(n)) :
               /\ GoldenCandidatesAt(n)[i].value # GoldenDataAt(n).value
               /\ GoldenCandidatesAt(n)[i].source_document \notin
                      Elements(GoldenDataAt(n).verified_by)

(***************************************************************************)
(* Claims about the validator handler's status codes                       *)
(***************************************************************************)
AskedLoan == Get(event, "loan_application_id", "")
AskedIds  == Get(event, "document_ids", <<>>)

\* reading one of the requested items raises
ReadFails == \E k \in 1..Len(AskedIds) : "raises" \in DOMAIN DocumentsTable[AskedIds[k]]

\* the stored item is there, belongs to the application, is processed and has
\* extracted data
Loadable(id) ==
    /\ DocumentsTable[id] # NoField
    /\ "raises" \notin DOMAIN DocumentsTable[id]
    /\ DocumentsTable[id].loan_application_id = AskedLoan
    /\ DocumentsTable[id].processing_status = "COMPLETED"
    /\ DOMAIN DocumentsTable[id].extracted_data # {}

NoneLoadable == \A k \in 1..Len(AskedIds) : ~Loadable(AskedIds[k])

\* an application named, nothing failing, and no document to validate: no
\* ids at all, or none that can be loaded
EmptyInput == AskedLoan # "" /\ ~ReadFails /\ NoneLoadable

ValidationError ==
    /\ response.statusCode = 400
    /\ response.error = "ValidationError"

\* C19: with no documents, or none that can be loaded, the handler answers
\* without an error: status 200, an empty inconsistency list and a golden
\* record without fields
C19_EmptyInputIsNotAnError ==
    (response # NoField /\ EmptyInput) =>
        /\ Succeeded
        /\ response.inconsistencies = <<>>
        /\ FieldEntries(response.golden_record) = <<>>

\* C20: the handler always returns a response; 400 with error
\* 'ValidationError' when loan_application_id is missing, when document_ids is
\* missing or empty, or when none of the requested documents is loadable;
\* 500 when reading a document fails; 200 otherwise
C20_StatusCodes ==
    response # NoField =>
        /\ response.statusCode \in {200, 400, 500}
        /\ (AskedLoan = "" \/ AskedIds = <<>>) => ValidationError
        /\ (AskedLoan # "" /\ AskedIds # <<>> /\ ReadFails) => response.statusCode = 500
        /\ EmptyInput => ValidationError
        /\ (AskedLoan # "" /\ ~ReadFails /\ ~NoneLoadable) => response.statusCode = 200

\* two ids asked for, one still in processing and one without an item: none
\* is loaded and the answer is the 400 of the ValueError
C20_Witness ==
    /\ response # NoField
    /\ AskedLoan = "loan-1"
    /\ AskedIds = <<"doc-pending", "doc-missing">>
    /\ ValidationError
    /\ response.message = "No valid documents available for validation"

(***************************************************************************)
(* Claims about levenshtein_distance                                       *)
(***************************************************************************)
\* C22: levenshtein_distance(a, b) is the edit distance of a and b, the
\* fewest single-character insertions, deletions and substitutions that turn
\* a into b; the distance of a string to itself is 0
C22_LevenshteinIsEditDistance ==
    /\ lev_distance = EditDistance(lev_s1, lev_s2)
    /\ lev_s1 = lev_s2 => lev_distance = 0

\* a call with the shorter string first (the function swaps its arguments)
\* whose answer needs a deletion and a substitution
C22_Witness ==
    /\ lev_s1 = <<"a", "b">>
    /\ lev_s2 = <<"b", "a", "b", "b">>
    /\ lev_distance = 2

(***************************************************************************)
(* Claims about validate_ssn_dob                                           *)
(***************************************************************************)
AllValuesEqual ==
    \A i \in 1..Len(values), j \in 1..Len(values) : values[i].value = values[j].value

\* C28: validate_ssn_dob returns the empty list exactly when all candidate
\* values are equal; whatever the order of the candidates, a disagreement
\* gives at least one inconsistency, and every inconsistency is CRITICAL
C28_EmptyIffAllEqual ==
    /\ value_inconsistencies = <<>> <=> AllValuesEqual
    /\ \A k \in 1..Len(value_inconsistencies) :
           value_inconsistencies[k].severity = "CRITICAL"

\* the first two candidates agree and the third differs from both: one
\* inconsistency, where the third candidate first would give two
C28_Witness ==
    /\ Len(values) = 3
    /\ values[1].value = values[2].value
    /\ values[3].value # values[1].value
    /\ Len(value_inconsistencies) = 1

(***************************************************************************)
(* Claims about the risk factors                                           *)
(***************************************************************************)
\* the inputs that score: an inconsistency of a category of the point table,
\* a field whose confidence is below the threshold, a flagged document
ScoredInconsistencies ==
    Cardinality({ i \in 1..Len(inconsistencies) : ClaimPoints(inconsistencies[i]) > 0 })
UnsureFields ==
    Cardinality({ i \in 1..Len(golden_record) :
                    /\ "confidence" \in DOMAIN golden_record[i][2]
                    /\ golden_record[i][2].confidence < LowConfidenceThreshold })
FlaggedDocuments ==
    Cardinality({ i \in 1..Len(documents) :
                    \/ "status" \in DOMAIN documents[i] /\ documents[i].status = "LOW_QUALITY"
                    \/ /\ "requires_manual_review" \in DOMAIN documents[i]
                       /\ documents[i].requires_manual_review = TRUE })

\* C30: raw_score is the sum of points_added over risk_factors, every factor
\* has points_added > 0, and the factors are one for each input that scores:
\* none for an inconsistency of an unrecognized category, a confident field
\* or an unflagged document
C30_FactorsAccountForScore ==
    /\ risk_assessment.raw_score = SumPoints(risk_assessment.risk_factors)
    /\ \A k \in 1..Len(risk_assessment.risk_factors) :
           risk_assessment.risk_factors[k].points_added > 0
    /\ Len(FactorsOf(risk_assessment, "INCONSISTENCY")) =
           ScoredInconsistencies
    /\ Len(FactorsOf(risk_assessment, "LOW_CONFIDENCE")) = UnsureFields
    /\ Len(FactorsOf(risk_assessment, "POOR_DOCUMENT_QUALITY")) =
           FlaggedDocuments
    /\ Len(risk_assessment.risk_factors) =
           ScoredInconsistencies
           + UnsureFields + FlaggedDocuments

\* an event with one input of each kind that scores and one of each kind that
\* does not
C30_Witness ==
    /\ Len(inconsistencies) = 2 /\ ScoredInconsistencies = 1
    /\ Len(golden_record) = 2 /\ UnsureFields = 1
    /\ Len(documents) = 1 /\ FlaggedDocuments = 1
    /\ Len(risk_assessment.risk_factors) = 3
    /\ risk_assessment.raw_score > 0

(***************************************************************************)
(* Claims about the validator and the risk scorer together                 *)
(***************************************************************************)
\* C26: for every successful validator response, calculate_total_risk on its
\* inconsistencies, golden record and documents completes without raising
\* and returns a risk assessment
C26_CompositionSucceeds ==
    Succeeded =>
        /\ ~calculate_total_risk(response.inconsistencies, response.golden_record,
                                 response.documents).raised
        /\ ~risk_response.raised

(***************************************************************************)
(* Claims about the candidates of the rules and of the golden record       *)
(***************************************************************************)
\* the (document, value) pairs the handler passes to the rule of a category
RuleCandidates(category) ==
    { <<c.source, c.value>> : c \in Elements(HandlerFields(loaded_documents, category)) }

\* the (document, value) pairs the golden record builder considers for a field
FieldCandidates(category) ==
    { <<c.source_document, c.value>> : c \in Elements(CandidatesFor(category, loaded_documents)) }

AllChecksDone == \A check \in DOMAIN check_phase : check_phase[check] = "done"

\* the inconsistencies of the handler on the invocation's documents, in the
\* handler's order of the checks, without the generated ids
SequentialResult ==
    WithoutIds(ValidateLoaded("loan-1", loaded_documents, bedrock, "r1", "t1").inconsistencies)

MergedResult == WithoutIds(ToInconsistencies(merged, "r1"))

SameComponents(i, j) ==
    \A k \in 1..Len(AddressComponents) :
        LiterallyEqual(ComponentOf(address_candidates[i].value, AddressComponents[k]),
                       ComponentOf(address_candidates[j].value, AddressComponents[k]))

\* the calls made for candidates i and j
CallsBetween(i, j) ==
    SelectSeq(bedrock_calls,
              LAMBDA call : call.between =
                               <<address_candidates[i].source, address_candidates[j].source>>)

\* C29: for two candidates whose street, city, state and ZIP are pairwise
\* equal after lower-casing and trimming, validate_addresses reports nothing
\* and makes no Bedrock call, whatever Bedrock would do; and no call is ever
\* about a ZIP code: every call is about the street, city or state of the
\* two addresses it was made for
C29_EqualComponentsNeedNoOracle ==
    /\ \A i \in 1..Len(address_candidates), j \in 1..Len(address_candidates) :
          (i < j /\ SameComponents(i, j)) =>
              EntriesOf(i, j) = <<>> /\ CallsBetween(i, j) = <<>>
    /\ \A k \in 1..Len(bedrock_calls) :
          /\ bedrock_calls[k].component_type \in ComponentTypes
          /\ \E i \in 1..Len(address_candidates), j \in 1..Len(address_candidates) :
                /\ i < j
                /\ bedrock_calls[k].between =
                       <<address_candidates[i].source, address_candidates[j].source>>
                /\ ComponentOf(address_candidates[i].value, bedrock_calls[k].component_type).str =
                       bedrock_calls[k].component1
                /\ ComponentOf(address_candidates[j].value, bedrock_calls[k].component_type).str =
                       bedrock_calls[k].component2

\* two addresses written differently with the same components, a Bedrock
\* that would answer NO, and a third address with another ZIP for which no
\* call is made either
C29_Witness ==
    /\ Len(address_candidates) = 3
    /\ address_candidates[1].value # address_candidates[2].value
    /\ SameComponents(1, 2)
    /\ address_oracle = [t \in ComponentTypes |-> [text |-> s_NO]]
    /\ ~LiterallyEqual(ComponentOf(address_candidates[1].value, "ZIP"),
                       ComponentOf(address_candidates[3].value, "ZIP"))
    /\ LiterallyEqual(ComponentOf(address_candidates[1].value, "street"),
                      ComponentOf(address_candidates[3].value, "street"))
    /\ EntriesOf(1, 3) # <<>>
    /\ bedrock_calls = <<>>

(***************************************************************************)
(* Claims about trigger_alerts                                             *)
(***************************************************************************)
Called == alert_call # NoField

\* the risk score trigger_alerts reads from the record of the latest call
CalledScore ==
    IF "risk_score" \in DOMAIN alert_call.record_data
    THEN alert_call.record_data.risk_score ELSE 0

AlertTypes == { alerts_triggered[k].type : k \in 1..Len(alerts_triggered) }

\* the alerts topic is configured and SNS accepts the message
Delivering == alert_call.topic # <<>> /\ "MessageId" \in DOMAIN alert_call.sns

NameRank(doc_type) ==
    CASE doc_type \in {"DRIVERS_LICENSE", "ID_DOCUMENT"} -> 4
      [] doc_type = "TAX_FORM" -> 3
      [] doc_type = "W2" -> 2
      [] doc_type = "BANK_STATEMENT" -> 1
      [] OTHER -> 0

\* the type of the document a selected name comes from is of the best rank
\* among the candidates
BestRanked(source_document, candidates) ==
    \E i \in 1..Len(candidates) :
        /\ candidates[i].source_document = source_document
        /\ \A j \in 1..Len(candidates) :
              NameRank(candidates[j].doc_type) <= NameRank(candidates[i].doc_type)

\* the second builder has run on the candidates of the loaded documents
BuiltFromLoaded == aggregated_data = AggregatedData(loaded_documents)

\* C23: in both builders the name comes from a candidate whose source type
\* has the best rank (government-issued ID, then TAX_FORM, then W2, then
\* BANK_STATEMENT, then any other type) whatever the confidences
C23_SameNameRanking ==
    /\ "name" \in KeysOf(golden_record) =>
          BestRanked(EntryOf(golden_record, "name")[2].source_document,
                     CandidatesFor("name", loaded_documents))
    /\ (BuiltFromLoaded /\ s_name \in KeysOf(aggregated_record)) =>
          BestRanked(EntryOf(aggregated_record, s_name)[2].source_document,
                     CandidatesFor("name", loaded_documents))

(***************************************************************************)
(* Claims about analyze_document_with_retry                                *)
(***************************************************************************)
ThrottlingClass(error) ==
    /\ "code" \in DOMAIN error
    /\ error.code \in {"ProvisionedThroughputExceededException", "ThrottlingException",
                        "ServiceUnavailable"}

Raised == "raises" \in DOMAIN analyze_outcome

LastFailure == textract_failures[Len(textract_failures)]

====
